---- MODULE Spec2Model ----
(***************************************************************************)
(* Model of the liquidation hunter (src/liquidation_hunter.py): the        *)
(* DecisionEngine priority chain with its two anti-countertrend filters,   *)
(* and analyze_symbol, the pipeline that fetches the exchange payloads,    *)
(* defaults the absent ones, derives indicators and pattern flags and      *)
(* hands them to a fresh DecisionEngine.                                   *)
(*                                                                         *)
(* Python floats are modelled as exact rationals <<n, d>> with d > 0, so   *)
(* every threshold comparison is exact; binary rounding error of the       *)
(* float arithmetic is not modelled.  The alert labels are kept without    *)
(* their leading pictograph.                                               *)
(***************************************************************************)
EXTENDS Integers, Sequences, FiniteSets, TLC

VARIABLES
    engine,         \* the DecisionEngine object: its six attributes (self.*)
    data,           \* the dict passed to DecisionEngine.evaluate, or NoData
    after_rules,    \* the six attributes right after the if/elif chain
    after_filter1,  \* the six attributes right after the first filter
    decision,       \* the dict returned by evaluate, or NoData
    self_at_entry,  \* the six attributes as evaluate found them
    calls,          \* number of evaluate calls made on the engine (capped)
    pc,             \* position of the caller
    raw,            \* the exchange payloads analyze_symbol fetches
    snapshot,       \* what analyze_symbol returned, or NoData
    args,           \* the arguments of a direct call of one method
    ret,            \* what that method returned, or NoData
    app             \* the serving layer: its globals and its threads

vars == <<engine, data, after_rules, after_filter1, decision, self_at_entry,
          calls, pc, raw, snapshot, args, ret, app>>

NoData == "NoData"

\* Optional values: None is the empty tuple, a present value v is <<v>>
None == <<>>

Some(v) == <<v>>

Get(opt) == opt[1]

----------------------------------------------------------------------------
(* Exact rationals standing for Python floats.                             *)

R(n) == <<n, 1>>

Q(n, d) == <<n, d>>

Lt(a, b) == a[1] * b[2] < b[1] * a[2]

Gt(a, b) == Lt(b, a)

Le(a, b) == ~ Lt(b, a)

Ge(a, b) == ~ Lt(a, b)

NumEq(a, b) == a[1] * b[2] = b[1] * a[2]

IsZero(a) == a[1] = 0

RECURSIVE Gcd(_, _)
Gcd(m, n) == IF n = 0 THEN m ELSE Gcd(n, m % n)

Abs(n) == IF n < 0 THEN -n ELSE n

\* lowest terms, so that equal numbers are equal tuples
Norm(a) ==
    LET g == Gcd(Abs(a[1]), a[2])
    IN  <<a[1] \div g, a[2] \div g>>

Neg(a) == <<-a[1], a[2]>>

Add(a, b) == Norm(<<a[1] * b[2] + b[1] * a[2], a[2] * b[2]>>)

Sub(a, b) == Norm(<<a[1] * b[2] - b[1] * a[2], a[2] * b[2]>>)

Mul(a, b) == Norm(<<a[1] * b[1], a[2] * b[2]>>)

\* a / b for b # 0, keeping the denominator positive
Div(a, b) ==
    IF b[1] > 0 THEN Norm(<<a[1] * b[2], a[2] * b[1]>>)
    ELSE Norm(<<-(a[1] * b[2]), -(a[2] * b[1])>>)

\* round(a, digits) with scale = 10^digits: nearest multiple of 1/scale,
\* ties to the even one
Round(a, scale) ==
    LET num == a[1] * scale
        q == num \div a[2]
        rem == num - q * a[2]
        up == \/ 2 * rem > a[2]
              \/ 2 * rem = a[2] /\ q % 2 = 1
    IN  Norm(<<IF up THEN q + 1 ELSE q, scale>>)

RECURSIVE SumSeq(_)
SumSeq(s) == IF s = <<>> THEN R(0) ELSE Add(s[1], SumSeq(Tail(s)))

\* numpy.mean of a non-empty list
Mean(s) == Div(SumSeq(s), R(Len(s)))

\* max() and min() of a non-empty list
MaxOf(s) == s[CHOOSE i \in 1..Len(s) : \A j \in 1..Len(s) : Ge(s[i], s[j])]

MinOf(s) == s[CHOOSE i \in 1..Len(s) : \A j \in 1..Len(s) : Le(s[i], s[j])]

\* the slice s[-n:]
LastN(s, n) == IF Len(s) > n THEN SubSeq(s, Len(s) - n + 1, Len(s)) ELSE s

\* the slice s[:n]
FirstN(s, n) == IF Len(s) > n THEN SubSeq(s, 1, n) ELSE s

----------------------------------------------------------------------------
(* DecisionEngine                                                          *)

\* DecisionEngine.__init__
NewEngine ==
    [opinion |-> "NEUTRAL", reason |-> "", confidence |-> "LOW",
     liquidation_alert |-> "NO SIGNAL",
     valid_breakdown |-> FALSE, fake_breakdown |-> FALSE]

\* A plausible slip: breakdown flags only ever raised, never cleared
SetDecisionSticky(self, opinion, reason, confidence, alert, vb, fb) ==
    [self EXCEPT !.opinion = opinion, !.reason = reason,
                 !.confidence = confidence, !.liquidation_alert = alert,
                 !.valid_breakdown = self.valid_breakdown \/ vb,
                 !.fake_breakdown = self.fake_breakdown \/ fb]

\* DecisionEngine._set_decision
SetDecision(self, opinion, reason, confidence, alert, vb, fb) ==
    [self EXCEPT !.opinion = opinion, !.reason = reason,
                 !.confidence = confidence, !.liquidation_alert = alert,
                 !.valid_breakdown = vb, !.fake_breakdown = fb]

\* The if/elif chain with STRONG_ASK tested before the liquidity bait rules
RulesBelowConflictsSwapped(self, d) ==
    IF d.setups.short_squeeze THEN
        SetDecision(self, "LONG", "SHORT_SQUEEZE_BUILDUP", "VERY_HIGH",
                    "SHORT SQUEEZE IMMINENT", FALSE, TRUE)
    ELSE IF d.setups.long_squeeze THEN
        SetDecision(self, "SHORT", "LONG_SQUEEZE_BUILDUP", "VERY_HIGH",
                    "LONG SQUEEZE IMMINENT", TRUE, FALSE)
    ELSE IF d.ob.bias = "STRONG_ASK" THEN
        SetDecision(self, "SHORT", "STRONG_SELL_PRESSURE", "HIGH",
                    "EXTREME ASK DOMINANCE", FALSE, FALSE)
    ELSE IF d.bait.bait_buy THEN
        SetDecision(self, "LONG", "LIQUIDITY_BAIT_ABSORPTION", "HIGH",
                    "BUY LIQUIDITY BAIT DETECTED", FALSE, TRUE)
    ELSE IF d.bait.bait_sell THEN
        SetDecision(self, "SHORT", "LIQUIDITY_BAIT_DISTRIBUTION", "HIGH",
                    "SELL LIQUIDITY BAIT DETECTED", TRUE, FALSE)
    ELSE IF d.ob.bias = "STRONG_BID" THEN
        SetDecision(self, "LONG", "STRONG_BUY_PRESSURE", "HIGH",
                    "EXTREME BID DOMINANCE", FALSE, FALSE)
    ELSE IF d.premium.bias = "LONG_DOMINANT" /\ d.ob.sentiment = "BULLISH" THEN
        SetDecision(self, "LONG", "PREMIUM_OB_CONFIRMATION", "HIGH",
                    "LONG DOMINANT CONFIRMED", FALSE, FALSE)
    ELSE IF d.premium.bias = "SHORT_DOMINANT" /\ d.ob.sentiment = "BEARISH" THEN
        SetDecision(self, "SHORT", "PREMIUM_OB_CONFIRMATION", "HIGH",
                    "SHORT DOMINANT CONFIRMED", FALSE, FALSE)
    ELSE IF d.ema_trend = "UP" /\ d.ob.sentiment # "BEARISH" THEN
        SetDecision(self, "LONG", "EMA_UPTREND_CONFIRMATION", "MEDIUM",
                    "UPTREND STRUCTURE", FALSE, FALSE)
    ELSE IF d.ema_trend = "DOWN" /\ d.ob.sentiment # "BULLISH" THEN
        SetDecision(self, "SHORT", "EMA_DOWNTREND_CONFIRMATION", "MEDIUM",
                    "DOWNTREND STRUCTURE", FALSE, FALSE)
    ELSE IF d.liq_zones.near_long_liq /\ d.ob.sentiment = "BEARISH" THEN
        SetDecision(self, "SHORT", "LONG_LIQ_CASCADE", "MEDIUM",
                    "LONG LIQUIDATION ZONE", TRUE, FALSE)
    ELSE IF d.liq_zones.near_short_liq /\ d.ob.sentiment = "BULLISH" THEN
        SetDecision(self, "LONG", "SHORT_LIQ_CASCADE", "MEDIUM",
                    "SHORT LIQUIDATION ZONE", FALSE, TRUE)
    ELSE IF d.ob.sentiment = "BULLISH_BIAS" THEN
        SetDecision(self, "LONG", "OB_BUY_PRESSURE", "LOW",
                    "BID DOMINANT", FALSE, FALSE)
    ELSE IF d.ob.sentiment = "BEARISH_BIAS" THEN
        SetDecision(self, "SHORT", "OB_SELL_PRESSURE", "LOW",
                    "ASK DOMINANT", FALSE, FALSE)
    ELSE
        SetDecision(self, "NEUTRAL", "NO_CLEAR_SIGNAL", "LOW", "NO SIGNAL",
                    FALSE, FALSE)

\* DecisionEngine.evaluate, priorities 1 to 7 and the default
\* (the elif branches after the eight priority-0 rules)
RulesBelowConflicts(self, d) ==
    IF d.setups.short_squeeze THEN
        SetDecision(self, "LONG", "SHORT_SQUEEZE_BUILDUP", "VERY_HIGH",
                    "SHORT SQUEEZE IMMINENT", FALSE, TRUE)
    ELSE IF d.setups.long_squeeze THEN
        SetDecision(self, "SHORT", "LONG_SQUEEZE_BUILDUP", "VERY_HIGH",
                    "LONG SQUEEZE IMMINENT", TRUE, FALSE)
    ELSE IF d.bait.bait_buy THEN
        SetDecision(self, "LONG", "LIQUIDITY_BAIT_ABSORPTION", "HIGH",
                    "BUY LIQUIDITY BAIT DETECTED", FALSE, TRUE)
    ELSE IF d.bait.bait_sell THEN
        SetDecision(self, "SHORT", "LIQUIDITY_BAIT_DISTRIBUTION", "HIGH",
                    "SELL LIQUIDITY BAIT DETECTED", TRUE, FALSE)
    ELSE IF d.ob.bias = "STRONG_BID" THEN
        SetDecision(self, "LONG", "STRONG_BUY_PRESSURE", "HIGH",
                    "EXTREME BID DOMINANCE", FALSE, FALSE)
    ELSE IF d.ob.bias = "STRONG_ASK" THEN
        SetDecision(self, "SHORT", "STRONG_SELL_PRESSURE", "HIGH",
                    "EXTREME ASK DOMINANCE", FALSE, FALSE)
    ELSE IF d.premium.bias = "LONG_DOMINANT" /\ d.ob.sentiment = "BULLISH" THEN
        SetDecision(self, "LONG", "PREMIUM_OB_CONFIRMATION", "HIGH",
                    "LONG DOMINANT CONFIRMED", FALSE, FALSE)
    ELSE IF d.premium.bias = "SHORT_DOMINANT" /\ d.ob.sentiment = "BEARISH" THEN
        SetDecision(self, "SHORT", "PREMIUM_OB_CONFIRMATION", "HIGH",
                    "SHORT DOMINANT CONFIRMED", FALSE, FALSE)
    ELSE IF d.ema_trend = "UP" /\ d.ob.sentiment # "BEARISH" THEN
        SetDecision(self, "LONG", "EMA_UPTREND_CONFIRMATION", "MEDIUM",
                    "UPTREND STRUCTURE", FALSE, FALSE)
    ELSE IF d.ema_trend = "DOWN" /\ d.ob.sentiment # "BULLISH" THEN
        SetDecision(self, "SHORT", "EMA_DOWNTREND_CONFIRMATION", "MEDIUM",
                    "DOWNTREND STRUCTURE", FALSE, FALSE)
    ELSE IF d.liq_zones.near_long_liq /\ d.ob.sentiment = "BEARISH" THEN
        SetDecision(self, "SHORT", "LONG_LIQ_CASCADE", "MEDIUM",
                    "LONG LIQUIDATION ZONE", TRUE, FALSE)
    ELSE IF d.liq_zones.near_short_liq /\ d.ob.sentiment = "BULLISH" THEN
        SetDecision(self, "LONG", "SHORT_LIQ_CASCADE", "MEDIUM",
                    "SHORT LIQUIDATION ZONE", FALSE, TRUE)
    ELSE IF d.ob.sentiment = "BULLISH_BIAS" THEN
        SetDecision(self, "LONG", "OB_BUY_PRESSURE", "LOW",
                    "BID DOMINANT", FALSE, FALSE)
    ELSE IF d.ob.sentiment = "BEARISH_BIAS" THEN
        SetDecision(self, "SHORT", "OB_SELL_PRESSURE", "LOW",
                    "ASK DOMINANT", FALSE, FALSE)
    ELSE
        SetDecision(self, "NEUTRAL", "NO_CLEAR_SIGNAL", "LOW", "NO SIGNAL",
                    FALSE, FALSE)

\* The priority-0 rules with the conflict rules marking a constant flag
ApplyRulesConstFlags(self, d) ==
    IF d.patterns.extreme_overbought_cascade THEN
        SetDecision(self, "SHORT", "EXTREME_OVERBOUGHT_CASCADE_REVERSAL",
                    "VERY_HIGH", "EXTREME OVERBOUGHT - MAJOR TOP", TRUE, FALSE)
    ELSE IF d.patterns.extreme_oversold_cascade THEN
        SetDecision(self, "LONG", "EXTREME_OVERSOLD_CASCADE_REVERSAL",
                    "VERY_HIGH", "EXTREME OVERSOLD - MAJOR BOTTOM", FALSE, TRUE)
    ELSE IF d.patterns.overbought_reversal THEN
        SetDecision(self, "SHORT", "OVERBOUGHT_TOP_REVERSAL", "VERY_HIGH",
                    "TOP FORMATION - REVERSAL", TRUE, FALSE)
    ELSE IF d.patterns.oversold_reversal THEN
        SetDecision(self, "LONG", "OVERSOLD_BOTTOM_REVERSAL", "VERY_HIGH",
                    "BOTTOM FORMATION - REVERSAL", FALSE, TRUE)
    ELSE IF d.patterns.bid_liquidity_trap THEN
        SetDecision(self, "SHORT", "BID_LIQUIDITY_TRAP_DISTRIBUTION", "HIGH",
                    "BID DOMINANT TAPI PREMIUM NEGATIF - DISTRIBUTION",
                    TRUE, FALSE)
    ELSE IF d.patterns.ask_liquidity_trap THEN
        SetDecision(self, "LONG", "ASK_LIQUIDITY_TRAP_ABSORPTION", "HIGH",
                    "ASK DOMINANT TAPI PREMIUM POSITIF - ABSORPTION",
                    FALSE, TRUE)
    ELSE IF d.patterns.bid_vs_premium_conflict THEN
        SetDecision(self, "SHORT", "CONFLICT_BID_VS_PREMIUM_PREMIUM_WINS",
                    "MEDIUM",
                    "BID DOMINANT TAPI SHORT PREMIUM - FOLLOW PREMIUM",
                    TRUE, FALSE)
    ELSE IF d.patterns.ask_vs_premium_conflict THEN
        SetDecision(self, "LONG", "CONFLICT_ASK_VS_PREMIUM_PREMIUM_WINS",
                    "MEDIUM",
                    "ASK DOMINANT TAPI LONG PREMIUM - FOLLOW PREMIUM",
                    FALSE, TRUE)
    ELSE RulesBelowConflicts(self, d)

\* DecisionEngine.evaluate, the whole if/elif chain
ApplyRules(self, d) ==
    IF d.patterns.extreme_overbought_cascade THEN
        SetDecision(self, "SHORT", "EXTREME_OVERBOUGHT_CASCADE_REVERSAL",
                    "VERY_HIGH", "EXTREME OVERBOUGHT - MAJOR TOP", TRUE, FALSE)
    ELSE IF d.patterns.extreme_oversold_cascade THEN
        SetDecision(self, "LONG", "EXTREME_OVERSOLD_CASCADE_REVERSAL",
                    "VERY_HIGH", "EXTREME OVERSOLD - MAJOR BOTTOM", FALSE, TRUE)
    ELSE IF d.patterns.overbought_reversal THEN
        SetDecision(self, "SHORT", "OVERBOUGHT_TOP_REVERSAL", "VERY_HIGH",
                    "TOP FORMATION - REVERSAL", TRUE, FALSE)
    ELSE IF d.patterns.oversold_reversal THEN
        SetDecision(self, "LONG", "OVERSOLD_BOTTOM_REVERSAL", "VERY_HIGH",
                    "BOTTOM FORMATION - REVERSAL", FALSE, TRUE)
    ELSE IF d.patterns.bid_liquidity_trap THEN
        SetDecision(self, "SHORT", "BID_LIQUIDITY_TRAP_DISTRIBUTION", "HIGH",
                    "BID DOMINANT TAPI PREMIUM NEGATIF - DISTRIBUTION",
                    TRUE, FALSE)
    ELSE IF d.patterns.ask_liquidity_trap THEN
        SetDecision(self, "LONG", "ASK_LIQUIDITY_TRAP_ABSORPTION", "HIGH",
                    "ASK DOMINANT TAPI PREMIUM POSITIF - ABSORPTION",
                    FALSE, TRUE)
    ELSE IF d.patterns.bid_vs_premium_conflict THEN
        SetDecision(self, "SHORT", "CONFLICT_BID_VS_PREMIUM_PREMIUM_WINS",
                    "MEDIUM",
                    "BID DOMINANT TAPI SHORT PREMIUM - FOLLOW PREMIUM",
                    d.structure.raw_breakdown, FALSE)
    ELSE IF d.patterns.ask_vs_premium_conflict THEN
        SetDecision(self, "LONG", "CONFLICT_ASK_VS_PREMIUM_PREMIUM_WINS",
                    "MEDIUM",
                    "ASK DOMINANT TAPI LONG PREMIUM - FOLLOW PREMIUM",
                    FALSE, ~ d.structure.raw_breakdown)
    ELSE RulesBelowConflicts(self, d)

\* First filter with the 24h-change test dropped
Filter1CondNoChange(self, d) ==
    /\ self.opinion = "SHORT"
    /\ d.ob.sentiment = "BULLISH"
    /\ ~ d.structure.raw_breakdown

\* DecisionEngine._apply_filters, condition of the first filter
Filter1Cond(self, d) ==
    /\ self.opinion = "SHORT"
    /\ Lt(d.change_24h, R(-10))
    /\ d.ob.sentiment = "BULLISH"
    /\ ~ d.structure.raw_breakdown

\* Second filter reduced to its opinion test
Filter2CondOpinionOnly(self, d) ==
    self.opinion = "LONG"

\* DecisionEngine._apply_filters, condition of the second filter
Filter2Cond(self, d) ==
    /\ self.opinion = "LONG"
    /\ Gt(d.change_24h, R(10))
    /\ d.ob.sentiment = "BEARISH"
    /\ d.structure.raw_breakdown

\* the first filter also clearing the mark of the side it leaves
ApplyFilter1ClearsValid(self, d) ==
    IF Filter1Cond(self, d)
    THEN [self EXCEPT !.opinion = "LONG",
                      !.reason = "ANTI_OVERSOLD_SHORT_" \o self.reason,
                      !.fake_breakdown = TRUE,
                      !.valid_breakdown = FALSE]
    ELSE self

\* DecisionEngine._apply_filters, first if statement
ApplyFilter1(self, d) ==
    IF Filter1Cond(self, d)
    THEN [self EXCEPT !.opinion = "LONG",
                      !.reason = "ANTI_OVERSOLD_SHORT_" \o self.reason,
                      !.fake_breakdown = TRUE]
    ELSE self

\* DecisionEngine._apply_filters, second if statement
ApplyFilter2(self, d) ==
    IF Filter2Cond(self, d)
    THEN [self EXCEPT !.opinion = "SHORT",
                      !.reason = "ANTI_OVERBOUGHT_LONG_" \o self.reason,
                      !.valid_breakdown = TRUE]
    ELSE self

\* DecisionEngine._get_result
GetResult(self) ==
    [opinion |-> self.opinion, reason |-> self.reason,
     confidence |-> self.confidence,
     liquidation_alert |-> self.liquidation_alert,
     valid_breakdown |-> self.valid_breakdown,
     fake_breakdown |-> self.fake_breakdown]

----------------------------------------------------------------------------
(* Driving one DecisionEngine with decision dicts.  A dict is described    *)
(* by the entries in which it departs from the all-quiet dict; the first   *)
(* call on a new engine may depart in MaxActive entries, a call on an      *)
(* engine that has already evaluated may depart in MaxReuse entries.       *)

MaxActive == 4

MaxReuse == 2

MaxCalls == 2

PatternNames ==
    {"extreme_overbought_cascade", "extreme_oversold_cascade",
     "overbought_reversal", "oversold_reversal",
     "bid_liquidity_trap", "ask_liquidity_trap",
     "bid_vs_premium_conflict", "ask_vs_premium_conflict"}

SetupNames == {"short_squeeze", "long_squeeze"}

BaitNames == {"bait_buy", "bait_sell"}

FlagNames == PatternNames \cup SetupNames \cup BaitNames

EntryNames ==
    FlagNames \cup {"ob_bias", "ob_sentiment", "premium_bias", "ema_trend",
                    "near_long_liq", "near_short_liq", "change_24h",
                    "raw_breakdown"}

\* the all-quiet value of an entry
Quiet(f) ==
    CASE f \in {"ob_bias", "ob_sentiment", "premium_bias"} -> "NEUTRAL"
      [] f = "ema_trend" -> "FLAT"
      [] f = "change_24h" -> R(0)
      [] OTHER -> FALSE

\* the other values an entry can take, in a fixed order
Active(f) ==
    CASE f = "ob_bias" -> <<"STRONG_BID", "BID", "ASK", "STRONG_ASK">>
      [] f = "ob_sentiment" ->
            <<"BULLISH", "BULLISH_BIAS", "BEARISH_BIAS", "BEARISH">>
      [] f = "premium_bias" ->
            <<"LONG_DOMINANT", "LONG_BIAS", "SHORT_BIAS", "SHORT_DOMINANT">>
      [] f = "ema_trend" -> <<"UP", "DOWN">>
      [] f = "change_24h" -> <<R(-15), R(-10), R(10), R(15)>>
      [] OTHER -> <<TRUE>>

EntryOrder ==
    <<"extreme_overbought_cascade", "extreme_oversold_cascade",
      "overbought_reversal", "oversold_reversal",
      "bid_liquidity_trap", "ask_liquidity_trap",
      "bid_vs_premium_conflict", "ask_vs_premium_conflict",
      "short_squeeze", "long_squeeze", "bait_buy", "bait_sell",
      "ob_bias", "ob_sentiment", "premium_bias", "ema_trend",
      "near_long_liq", "near_short_liq", "change_24h", "raw_breakdown">>

\* A dict is enumerated as a number in mixed radix: digit i is 0 when
\* EntryOrder[i] is quiet and j when it takes its j-th active value.
RECURSIVE RadicesUpTo(_)
RadicesUpTo(n) ==
    IF n = 0 THEN <<>>
    ELSE Append(RadicesUpTo(n - 1), Len(Active(EntryOrder[n])) + 1)

Radices == RadicesUpTo(Len(EntryOrder))

Radix(i) == Radices[i]

RECURSIVE WeightsUpTo(_)
WeightsUpTo(n) ==
    IF n = 0 THEN <<>>
    ELSE LET w == WeightsUpTo(n - 1)
         IN  Append(w, IF n = 1 THEN 1 ELSE w[n - 1] * Radix(n - 1))

Weights == WeightsUpTo(Len(EntryOrder))

Weight(i) == Weights[i]

Digit(code, i) == (code \div Weight(i)) % Radix(i)

\* One more digit: from rest[k + 1], the codes with at most k non-zero
\* digits among the digits after i, the same for the digits from i on
RECURSIVE DepartureRow(_, _, _)
DepartureRow(rest, i, k) ==
    IF k = 0 THEN << {0} >>
    ELSE Append(DepartureRow(rest, i, k - 1),
                rest[k + 1] \cup
                { j * Weight(i) + c : j \in 1..(Radix(i) - 1), c \in rest[k] })

\* DepartureTable(i, last, kmax)[k + 1]: the codes with at most k non-zero
\* digits, all of them among the digits i..last
RECURSIVE DepartureTable(_, _, _)
DepartureTable(i, last, kmax) ==
    IF i > last THEN [k \in 1..(kmax + 1) |-> {0}]
    ELSE DepartureRow(DepartureTable(i + 1, last, kmax), i, kmax)

MaxDepartures == IF MaxActive > MaxReuse THEN MaxActive ELSE MaxReuse

\* the twelve pattern flags are the digits 1..12, the other entries 13..20
FlagTable == DepartureTable(1, 12, MaxDepartures)

OtherTable == DepartureTable(13, 20, MaxDepartures)

\* the flag codes with exactly k flags set
FlagsExactly(k) ==
    IF k = 0 THEN {0} ELSE FlagTable[k + 1] \ FlagTable[k]

\* value of entry EntryOrder[i] in the dict with this code
EntryValue(code, i) ==
    LET j == Digit(code, i)
    IN  IF j = 0 THEN Quiet(EntryOrder[i]) ELSE Active(EntryOrder[i])[j]

\* the decision dict as analyze_symbol compiles it, from its code
MkData(code) ==
    [change_24h |-> EntryValue(code, 19),
     ob |-> [bias |-> EntryValue(code, 13),
             sentiment |-> EntryValue(code, 14)],
     premium |-> [bias |-> EntryValue(code, 15)],
     setups |-> [short_squeeze |-> EntryValue(code, 9),
                 long_squeeze |-> EntryValue(code, 10)],
     bait |-> [bait_buy |-> EntryValue(code, 11),
               bait_sell |-> EntryValue(code, 12)],
     patterns |-> [extreme_overbought_cascade |-> EntryValue(code, 1),
                   extreme_oversold_cascade |-> EntryValue(code, 2),
                   overbought_reversal |-> EntryValue(code, 3),
                   oversold_reversal |-> EntryValue(code, 4),
                   bid_liquidity_trap |-> EntryValue(code, 5),
                   ask_liquidity_trap |-> EntryValue(code, 6),
                   bid_vs_premium_conflict |-> EntryValue(code, 7),
                   ask_vs_premium_conflict |-> EntryValue(code, 8)],
     ema_trend |-> EntryValue(code, 16),
     liq_zones |-> [near_long_liq |-> EntryValue(code, 17),
                    near_short_liq |-> EntryValue(code, 18)],
     structure |-> [raw_breakdown |-> EntryValue(code, 20)]]

NoRaw == None

InitEngine ==
    /\ engine = NewEngine
    /\ data = NoData
    /\ after_rules = NoData
    /\ after_filter1 = NoData
    /\ decision = NoData
    /\ self_at_entry = NoData
    /\ calls = 0
    /\ pc = "idle"
    /\ raw = NoRaw
    /\ snapshot = NoData
    /\ args = NoData
    /\ ret = NoData
    /\ app = NoData

\* a caller compiles a decision dict and calls engine.evaluate(d)
Call(d) ==
    /\ pc = "idle"
    /\ calls < MaxCalls
    /\ data' = d
    /\ pc' = "called"
    /\ UNCHANGED <<engine, after_rules, after_filter1, decision,
                   self_at_entry, calls, raw, snapshot, args, ret, app>>

\* a call with a dict that departs from the all-quiet dict in at most
\* kmax entries
CallWithin(kmax) ==
    \E kf \in 0..kmax :
        \E cf \in FlagsExactly(kf) :
            \E co \in OtherTable[kmax - kf + 1] :
                Call(MkData(cf + co))

CallFirst ==
    /\ pc = "idle"
    /\ calls = 0
    /\ CallWithin(MaxActive)

CallAgain ==
    /\ pc = "idle"
    /\ calls > 0
    /\ CallWithin(MaxReuse)

\* DecisionEngine.evaluate: rule chain, both filters, result dict
Evaluate ==
    /\ pc = "called"
    /\ LET chained == ApplyRules(engine, data)
           filtered1 == ApplyFilter1(chained, data)
           filtered2 == ApplyFilter2(filtered1, data)
       IN  /\ after_rules' = chained
           /\ after_filter1' = filtered1
           /\ engine' = filtered2
           /\ decision' = GetResult(filtered2)
    /\ self_at_entry' = engine
    /\ calls' = calls + 1
    /\ pc' = "returned"
    /\ UNCHANGED <<data, raw, snapshot, args, ret, app>>

\* the caller is done with the dict and the result; the engine object stays
Release ==
    /\ pc = "returned"
    /\ data' = NoData
    /\ after_rules' = NoData
    /\ after_filter1' = NoData
    /\ decision' = NoData
    /\ self_at_entry' = NoData
    /\ pc' = "idle"
    /\ UNCHANGED <<engine, calls, raw, snapshot, args, ret, app>>

NextEngine == CallFirst \/ CallAgain \/ Evaluate \/ Release

SpecEngine == InitEngine /\ [][NextEngine]_vars

----------------------------------------------------------------------------
(* Properties of DecisionEngine.evaluate                                   *)

\* The priority table of the rule chain: condition of the i-th rule
RuleHolds(i, d) ==
    CASE i = 1 -> d.patterns.extreme_overbought_cascade
      [] i = 2 -> d.patterns.extreme_oversold_cascade
      [] i = 3 -> d.patterns.overbought_reversal
      [] i = 4 -> d.patterns.oversold_reversal
      [] i = 5 -> d.patterns.bid_liquidity_trap
      [] i = 6 -> d.patterns.ask_liquidity_trap
      [] i = 7 -> d.patterns.bid_vs_premium_conflict
      [] i = 8 -> d.patterns.ask_vs_premium_conflict
      [] i = 9 -> d.setups.short_squeeze
      [] i = 10 -> d.setups.long_squeeze
      [] i = 11 -> d.bait.bait_buy
      [] i = 12 -> d.bait.bait_sell
      [] i = 13 -> d.ob.bias = "STRONG_BID"
      [] i = 14 -> d.ob.bias = "STRONG_ASK"
      [] i = 15 -> d.premium.bias = "LONG_DOMINANT" /\ d.ob.sentiment = "BULLISH"
      [] i = 16 -> d.premium.bias = "SHORT_DOMINANT" /\ d.ob.sentiment = "BEARISH"
      [] i = 17 -> d.ema_trend = "UP" /\ d.ob.sentiment # "BEARISH"
      [] i = 18 -> d.ema_trend = "DOWN" /\ d.ob.sentiment # "BULLISH"
      [] i = 19 -> d.liq_zones.near_long_liq /\ d.ob.sentiment = "BEARISH"
      [] i = 20 -> d.liq_zones.near_short_liq /\ d.ob.sentiment = "BULLISH"
      [] i = 21 -> d.ob.sentiment = "BULLISH_BIAS"
      [] i = 22 -> d.ob.sentiment = "BEARISH_BIAS"

\* The priority table of the rule chain: <<opinion, confidence, reason>>;
\* row 23 is the default
RuleOutcome ==
    << <<"SHORT", "VERY_HIGH", "EXTREME_OVERBOUGHT_CASCADE_REVERSAL">>,
       <<"LONG", "VERY_HIGH", "EXTREME_OVERSOLD_CASCADE_REVERSAL">>,
       <<"SHORT", "VERY_HIGH", "OVERBOUGHT_TOP_REVERSAL">>,
       <<"LONG", "VERY_HIGH", "OVERSOLD_BOTTOM_REVERSAL">>,
       <<"SHORT", "HIGH", "BID_LIQUIDITY_TRAP_DISTRIBUTION">>,
       <<"LONG", "HIGH", "ASK_LIQUIDITY_TRAP_ABSORPTION">>,
       <<"SHORT", "MEDIUM", "CONFLICT_BID_VS_PREMIUM_PREMIUM_WINS">>,
       <<"LONG", "MEDIUM", "CONFLICT_ASK_VS_PREMIUM_PREMIUM_WINS">>,
       <<"LONG", "VERY_HIGH", "SHORT_SQUEEZE_BUILDUP">>,
       <<"SHORT", "VERY_HIGH", "LONG_SQUEEZE_BUILDUP">>,
       <<"LONG", "HIGH", "LIQUIDITY_BAIT_ABSORPTION">>,
       <<"SHORT", "HIGH", "LIQUIDITY_BAIT_DISTRIBUTION">>,
       <<"LONG", "HIGH", "STRONG_BUY_PRESSURE">>,
       <<"SHORT", "HIGH", "STRONG_SELL_PRESSURE">>,
       <<"LONG", "HIGH", "PREMIUM_OB_CONFIRMATION">>,
       <<"SHORT", "HIGH", "PREMIUM_OB_CONFIRMATION">>,
       <<"LONG", "MEDIUM", "EMA_UPTREND_CONFIRMATION">>,
       <<"SHORT", "MEDIUM", "EMA_DOWNTREND_CONFIRMATION">>,
       <<"SHORT", "MEDIUM", "LONG_LIQ_CASCADE">>,
       <<"LONG", "MEDIUM", "SHORT_LIQ_CASCADE">>,
       <<"LONG", "LOW", "OB_BUY_PRESSURE">>,
       <<"SHORT", "LOW", "OB_SELL_PRESSURE">>,
       <<"NEUTRAL", "LOW", "NO_CLEAR_SIGNAL">> >>

\* index of the first rule of the table whose condition holds, 23 if none
FirstRule(d) ==
    LET holding == { i \in 1..22 : RuleHolds(i, d) }
    IN  IF holding = {} THEN 23
        ELSE CHOOSE i \in holding : \A j \in holding : i <= j

\* C1: before the filters run, the decision is the outcome of the first
\* rule, in the fixed priority order, whose condition holds for the dict,
\* and the default NEUTRAL/LOW/NO_CLEAR_SIGNAL when no condition holds; so
\* of any two conditions that hold together the higher-priority one wins.
C1_FirstRuleWins ==
    pc = "returned" =>
        LET r == RuleOutcome[FirstRule(data)]
        IN  /\ after_rules.opinion = r[1]
            /\ after_rules.confidence = r[2]
            /\ after_rules.reason = r[3]

\* a liquidity bait and a priority-3 orderbook rule hold together and the
\* bait rule, higher in the order, gave the outcome
C1_Witness ==
    /\ pc = "returned"
    /\ data.bait.bait_buy
    /\ data.ob.bias = "STRONG_ASK"
    /\ after_rules.opinion = "LONG"
    /\ after_rules.reason = "LIQUIDITY_BAIT_ABSORPTION"

ValidMarked ==
    {"EXTREME_OVERBOUGHT_CASCADE_REVERSAL", "OVERBOUGHT_TOP_REVERSAL",
     "BID_LIQUIDITY_TRAP_DISTRIBUTION", "LONG_SQUEEZE_BUILDUP",
     "LIQUIDITY_BAIT_DISTRIBUTION", "LONG_LIQ_CASCADE"}

FakeMarked ==
    {"EXTREME_OVERSOLD_CASCADE_REVERSAL", "OVERSOLD_BOTTOM_REVERSAL",
     "ASK_LIQUIDITY_TRAP_ABSORPTION", "SHORT_SQUEEZE_BUILDUP",
     "LIQUIDITY_BAIT_ABSORPTION", "SHORT_LIQ_CASCADE"}

Unmarked ==
    {"STRONG_BUY_PRESSURE", "STRONG_SELL_PRESSURE", "PREMIUM_OB_CONFIRMATION",
     "EMA_UPTREND_CONFIRMATION", "EMA_DOWNTREND_CONFIRMATION",
     "OB_BUY_PRESSURE", "OB_SELL_PRESSURE", "NO_CLEAR_SIGNAL"}

\* C2: the rule that fired fixes the breakdown flags of the decision before
\* the filters: valid-marked rules give (TRUE, FALSE), fake-marked rules
\* (FALSE, TRUE), the bid conflict rule valid_breakdown = raw_breakdown, the
\* ask conflict rule fake_breakdown = NOT raw_breakdown, and the priority
\* 3, 4, 5, 7 rules and the default (FALSE, FALSE).
C2_BreakdownFlagsByRule ==
    pc = "returned" =>
        LET why == after_rules.reason
            vb == after_rules.valid_breakdown
            fb == after_rules.fake_breakdown
        IN  /\ why \in ValidMarked => vb /\ ~ fb
            /\ why \in FakeMarked => ~ vb /\ fb
            /\ why = "CONFLICT_BID_VS_PREMIUM_PREMIUM_WINS" =>
                   (vb <=> data.structure.raw_breakdown) /\ ~ fb
            /\ why = "CONFLICT_ASK_VS_PREMIUM_PREMIUM_WINS" =>
                   (fb <=> ~ data.structure.raw_breakdown) /\ ~ vb
            /\ why \in Unmarked => ~ vb /\ ~ fb
            /\ why \in ValidMarked \cup FakeMarked \cup Unmarked \cup
                       {"CONFLICT_BID_VS_PREMIUM_PREMIUM_WINS",
                        "CONFLICT_ASK_VS_PREMIUM_PREMIUM_WINS"}

\* the ask conflict rule fired on a dict with raw_breakdown set, and left
\* fake_breakdown clear
C2_Witness ==
    /\ pc = "returned"
    /\ after_rules.reason = "CONFLICT_ASK_VS_PREMIUM_PREMIUM_WINS"
    /\ data.structure.raw_breakdown
    /\ ~ after_rules.fake_breakdown
    /\ ~ after_rules.valid_breakdown

\* the four conditions of the anti-oversold filter, on the chain's outcome
OversoldShort ==
    /\ after_rules.opinion = "SHORT"
    /\ Lt(data.change_24h, R(-10))
    /\ data.ob.sentiment = "BULLISH"
    /\ ~ data.structure.raw_breakdown

\* C3: when the chain yields SHORT with 24h change below -10, sentiment
\* BULLISH and raw_breakdown false, the returned decision is LONG, its
\* reason is "ANTI_OVERSOLD_SHORT_" followed by the fired rule's reason and
\* fake_breakdown is true; otherwise the first filter changes nothing.
C3_AntiOversoldFilter ==
    pc = "returned" =>
        IF OversoldShort
        THEN /\ decision.opinion = "LONG"
             /\ decision.reason = "ANTI_OVERSOLD_SHORT_" \o after_rules.reason
             /\ decision.fake_breakdown
        ELSE after_filter1 = after_rules

\* the spec's example: STRONG_ASK gives SHORT while the sentiment entry is
\* BULLISH and the 24h change is -15
C3_Witness ==
    /\ pc = "returned"
    /\ data.change_24h = R(-15)
    /\ after_rules.reason = "STRONG_SELL_PRESSURE"
    /\ decision.opinion = "LONG"
    /\ decision.reason = "ANTI_OVERSOLD_SHORT_STRONG_SELL_PRESSURE"
    /\ decision.fake_breakdown

\* C4: the two filters never both rewrite the decision of one evaluation:
\* at most one of the two steps changes the attributes, and the returned
\* reason is the fired rule's reason with at most one ANTI_ prefix.
C4_FiltersExclusive ==
    pc = "returned" =>
        /\ ~ (after_filter1 # after_rules /\ engine # after_filter1)
        /\ decision.reason \in
              {after_rules.reason,
               "ANTI_OVERSOLD_SHORT_" \o after_rules.reason,
               "ANTI_OVERBOUGHT_LONG_" \o after_rules.reason}
        /\ (decision.opinion # after_rules.opinion =>
               decision.reason # after_rules.reason)

\* the first filter flipped the opinion to LONG and the second filter,
\* evaluated on that LONG opinion, left it alone
C4_Witness ==
    /\ pc = "returned"
    /\ after_rules.opinion = "SHORT"
    /\ after_filter1.opinion = "LONG"
    /\ engine = after_filter1

\* C5: whatever this engine evaluated before, the returned decision equals
\* in all six fields the decision of a freshly constructed engine for the
\* same dict.
C5_NoCarryOver ==
    pc = "returned" =>
        decision =
            GetResult(ApplyFilter2(ApplyFilter1(ApplyRules(NewEngine, data),
                                                data), data))

\* a second evaluation on an engine left LONG with fake_breakdown set by
\* the first one, returning the plain default
C5_Witness ==
    /\ pc = "returned"
    /\ calls = 2
    /\ self_at_entry.opinion = "LONG"
    /\ self_at_entry.fake_breakdown
    /\ decision = [opinion |-> "NEUTRAL", reason |-> "NO_CLEAR_SIGNAL",
                   confidence |-> "LOW", liquidation_alert |-> "NO SIGNAL",
                   valid_breakdown |-> FALSE, fake_breakdown |-> FALSE]

----------------------------------------------------------------------------
(* BinanceFetcher.  A payload is what fetch() returned: None after any     *)
(* transport failure, otherwise the decoded JSON.  A JSON number field is  *)
(* a text: [ok |-> TRUE, val |-> x] parses to the number x, a text with   *)
(* ok FALSE makes float() raise.  The entries of a candle row are numbers. *)

Raised == <<"raised", "raised">>

\* float(text): the number, or Raised
ParseFloat(t) == IF t.ok THEN Some(t.val) ELSE Raised

\* get_price reading the key with a default: data.get("price", 0)
get_priceKeyDefault(payload) ==
    IF payload = None THEN None
    ELSE IF "price" \notin DOMAIN Get(payload) THEN Some(R(0))
    ELSE LET f == ParseFloat(Get(payload).price)
         IN  IF f = Raised THEN None ELSE f

\* BinanceFetcher.get_price
get_price(payload) ==
    IF payload = None THEN None
    ELSE IF "price" \notin DOMAIN Get(payload) THEN None
    ELSE LET f == ParseFloat(Get(payload).price)
         IN  IF f = Raised THEN None ELSE f

\* BinanceFetcher.get_24h_change
get_24h_change(payload) ==
    IF payload = None THEN None
    ELSE IF "priceChangePercent" \notin DOMAIN Get(payload) THEN None
    ELSE LET f == ParseFloat(Get(payload).priceChangePercent)
         IN  IF f = Raised THEN None ELSE f

RECURSIVE SumInts(_)
SumInts(s) == IF s = <<>> THEN 0 ELSE s[1] + SumInts(Tail(s))

\* get_orderbook_ratio returning the rounded ratio without the cap
get_orderbook_ratioUncapped(payload) ==
    IF payload = None THEN None
    ELSE IF {"bids", "asks"} \cap DOMAIN Get(payload) # {"bids", "asks"}
    THEN None
    ELSE LET bid_vol == SumInts(FirstN(Get(payload).bids, 5))
             ask_vol == SumInts(FirstN(Get(payload).asks, 5))
         IN  IF ask_vol = 0 THEN Some(R(99))
             ELSE IF bid_vol = 0 THEN Some(Q(1, 100))
             ELSE Some(Round(Q(bid_vol, ask_vol), 100))

\* BinanceFetcher.get_orderbook_ratio; each book side is the list of the
\* quantities of its levels, best level first
get_orderbook_ratio(payload) ==
    IF payload = None THEN None
    ELSE IF {"bids", "asks"} \cap DOMAIN Get(payload) # {"bids", "asks"}
    THEN None
    ELSE LET bid_vol == SumInts(FirstN(Get(payload).bids, 5))
             ask_vol == SumInts(FirstN(Get(payload).asks, 5))
         IN  IF ask_vol = 0 THEN Some(R(99))
             ELSE IF bid_vol = 0 THEN Some(Q(1, 100))
             ELSE LET ratio == Round(Q(bid_vol, ask_vol), 100)
                  IN  Some(IF Lt(ratio, R(99)) THEN ratio ELSE R(99))

\* trade.get("isBuyerMaker", True)
IsBuyerMaker(trade) ==
    IF "isBuyerMaker" \in DOMAIN trade THEN trade.isBuyerMaker ELSE TRUE

\* BinanceFetcher.get_trades_flow
get_trades_flow(payload) ==
    IF payload = None \/ Get(payload) = <<>> THEN None
    ELSE LET trades == Get(payload)
             buys == Cardinality({ i \in 1..Len(trades) :
                                     ~ IsBuyerMaker(trades[i]) })
             sells == Len(trades) - buys
             buy_ratio == IF sells > 0 THEN Q(buys, sells) ELSE R(99)
         IN  Some([buys |-> buys, sells |-> sells,
                   ratio |-> Round(buy_ratio, 100)])

\* data.get(key, 0) followed by float()
FloatOr0(dict, key) ==
    IF key \in DOMAIN dict THEN ParseFloat(dict[key]) ELSE Some(R(0))

\* BinanceFetcher.get_funding_premium
get_funding_premium(payload) ==
    IF payload = None \/ DOMAIN Get(payload) = {} THEN None
    ELSE LET mark == FloatOr0(Get(payload), "markPrice")
             index == FloatOr0(Get(payload), "indexPrice")
             funding == FloatOr0(Get(payload), "lastFundingRate")
         IN  IF Raised \in {mark, index, funding} THEN None
             ELSE LET premium_basis ==
                          IF IsZero(Get(index)) THEN R(0)
                          ELSE Mul(Div(Sub(Get(mark), Get(index)), Get(index)),
                                   R(100))
                  IN  Some([mark |-> Get(mark), index |-> Get(index),
                            premium |-> Round(premium_basis, 10000),
                            funding |-> Mul(Get(funding), R(100))])

\* [float(k[col]) for k in data if len(k) > col], col counted from 0
Column(rows, col) ==
    LET kept == SelectSeq(rows, LAMBDA k : Len(k) > col)
    IN  [i \in 1..Len(kept) |-> R(kept[i][col + 1])]

\* BinanceFetcher.get_klines; a row is the list
\* <<open time, open, high, low, close, volume>>, possibly cut short
get_klines(payload) ==
    IF payload = None \/ Get(payload) = <<>> THEN None
    ELSE Some([highs |-> Column(Get(payload), 2),
               lows |-> Column(Get(payload), 3),
               closes |-> Column(Get(payload), 4),
               volumes |-> Column(Get(payload), 5)])

\* BinanceFetcher.get_depth
get_depth(payload) == payload

----------------------------------------------------------------------------
(* TechnicalAnalyzer                                                       *)

\* get_ema_trend labelling a slope at the threshold as a trend
get_ema_trendInclusive(closes) ==
    IF Len(closes) < 10 THEN [slope |-> R(0), label |-> "FLAT"]
    ELSE LET ema_short == Mean(LastN(closes, 5))
             ema_long == Mean(LastN(closes, 10))
         IN  IF IsZero(ema_long) THEN [slope |-> R(0), label |-> "FLAT"]
             ELSE LET slope == Div(Sub(ema_short, ema_long), ema_long)
                  IN  IF Ge(slope, Q(5, 10000))
                      THEN [slope |-> slope, label |-> "UP"]
                      ELSE IF Le(slope, Q(-5, 10000))
                      THEN [slope |-> slope, label |-> "DOWN"]
                      ELSE [slope |-> slope, label |-> "FLAT"]

\* get_ema_trend with the long mean taken over all closes but the last
get_ema_trendLongSkipsLast(closes) ==
    IF Len(closes) < 10 THEN [slope |-> R(0), label |-> "FLAT"]
    ELSE LET ema_short == Mean(LastN(closes, 5))
             ema_long == Mean(FirstN(closes, Len(closes) - 1))
         IN  IF IsZero(ema_long) THEN [slope |-> R(0), label |-> "FLAT"]
             ELSE LET slope == Div(Sub(ema_short, ema_long), ema_long)
                  IN  IF Gt(slope, Q(5, 10000))
                      THEN [slope |-> slope, label |-> "UP"]
                      ELSE IF Lt(slope, Q(-5, 10000))
                      THEN [slope |-> slope, label |-> "DOWN"]
                      ELSE [slope |-> slope, label |-> "FLAT"]

\* TechnicalAnalyzer.get_ema_trend with its default threshold 0.0005
get_ema_trend(closes) ==
    IF Len(closes) < 10 THEN [slope |-> R(0), label |-> "FLAT"]
    ELSE LET ema_short == Mean(LastN(closes, 5))
             ema_long == Mean(LastN(closes, 10))
         IN  IF IsZero(ema_long) THEN [slope |-> R(0), label |-> "FLAT"]
             ELSE LET slope == Div(Sub(ema_short, ema_long), ema_long)
                  IN  IF Gt(slope, Q(5, 10000))
                      THEN [slope |-> slope, label |-> "UP"]
                      ELSE IF Lt(slope, Q(-5, 10000))
                      THEN [slope |-> slope, label |-> "DOWN"]
                      ELSE [slope |-> slope, label |-> "FLAT"]

\* ((closes[-1] - closes[-n]) / closes[-n]) * 100 when the list has n
\* entries and closes[-n] is not zero, else 0.0
ChangeSince(closes, n) ==
    LET len == Len(closes)
    IN  IF len >= n /\ ~ IsZero(closes[len - n + 1])
        THEN Mul(Div(Sub(closes[len], closes[len - n + 1]),
                     closes[len - n + 1]), R(100))
        ELSE R(0)

\* TechnicalAnalyzer.get_price_changes; the keys are "1m", "5m", "15m"
get_price_changes(closes) ==
    [m1 |-> ChangeSince(closes, 2),
     m5 |-> ChangeSince(closes, 5),
     m15 |-> ChangeSince(closes, 15)]

NoZones ==
    [near_long_liq |-> FALSE, near_short_liq |-> FALSE,
     recent_high |-> R(0), recent_low |-> R(0),
     long_liq_distance |-> R(0), short_liq_distance |-> R(0)]

\* TechnicalAnalyzer.get_liquidation_zones
get_liquidation_zones(highs, lows, current_price) ==
    IF highs = <<>> \/ lows = <<>> \/ IsZero(current_price) THEN NoZones
    ELSE LET recent_high == MaxOf(LastN(highs, 10))
             recent_low == MinOf(LastN(lows, 10))
         IN  [near_long_liq |->
                  Le(current_price, Mul(recent_low, Q(102, 100))),
              near_short_liq |->
                  Ge(current_price, Mul(recent_high, Q(98, 100))),
              recent_high |-> recent_high,
              recent_low |-> recent_low,
              long_liq_distance |->
                  IF ~ IsZero(recent_low)
                  THEN Mul(Div(Sub(current_price, recent_low), recent_low),
                           R(100))
                  ELSE R(0),
              short_liq_distance |->
                  Mul(Div(Sub(recent_high, current_price), current_price),
                      R(100))]

----------------------------------------------------------------------------
(* MarketStructureAnalyzer                                                 *)

\* the classification with the upper thresholds compared by >=
get_orderbook_sentimentInclusive(ratio) ==
    IF Ge(ratio, R(2))
    THEN [bias |-> "STRONG_BID", sentiment |-> "BULLISH", score |-> 40]
    ELSE IF Ge(ratio, Q(12, 10))
    THEN [bias |-> "BID", sentiment |-> "BULLISH_BIAS", score |-> 20]
    ELSE IF Lt(ratio, Q(5, 10))
    THEN [bias |-> "STRONG_ASK", sentiment |-> "BEARISH", score |-> -40]
    ELSE IF Lt(ratio, Q(8, 10))
    THEN [bias |-> "ASK", sentiment |-> "BEARISH_BIAS", score |-> -20]
    ELSE [bias |-> "NEUTRAL", sentiment |-> "NEUTRAL", score |-> 0]

\* the classification with the BID class given the BULLISH sentiment
get_orderbook_sentimentBidBullish(ratio) ==
    IF Gt(ratio, R(2))
    THEN [bias |-> "STRONG_BID", sentiment |-> "BULLISH", score |-> 40]
    ELSE IF Gt(ratio, Q(12, 10))
    THEN [bias |-> "BID", sentiment |-> "BULLISH", score |-> 20]
    ELSE IF Lt(ratio, Q(5, 10))
    THEN [bias |-> "STRONG_ASK", sentiment |-> "BEARISH", score |-> -40]
    ELSE IF Lt(ratio, Q(8, 10))
    THEN [bias |-> "ASK", sentiment |-> "BEARISH_BIAS", score |-> -20]
    ELSE [bias |-> "NEUTRAL", sentiment |-> "NEUTRAL", score |-> 0]

\* MarketStructureAnalyzer.get_orderbook_sentiment
get_orderbook_sentiment(ratio) ==
    IF Gt(ratio, R(2))
    THEN [bias |-> "STRONG_BID", sentiment |-> "BULLISH", score |-> 40]
    ELSE IF Gt(ratio, Q(12, 10))
    THEN [bias |-> "BID", sentiment |-> "BULLISH_BIAS", score |-> 20]
    ELSE IF Lt(ratio, Q(5, 10))
    THEN [bias |-> "STRONG_ASK", sentiment |-> "BEARISH", score |-> -40]
    ELSE IF Lt(ratio, Q(8, 10))
    THEN [bias |-> "ASK", sentiment |-> "BEARISH_BIAS", score |-> -20]
    ELSE [bias |-> "NEUTRAL", sentiment |-> "NEUTRAL", score |-> 0]

\* MarketStructureAnalyzer.get_premium_sentiment
get_premium_sentiment(premium) ==
    IF Gt(premium, Q(1, 10))
    THEN [bias |-> "LONG_DOMINANT", risk |-> "SHORT_SQUEEZE", score |-> 30]
    ELSE IF Gt(premium, Q(3, 100))
    THEN [bias |-> "LONG_BIAS", risk |-> "POTENTIAL_SQUEEZE", score |-> 15]
    ELSE IF Lt(premium, Q(-1, 10))
    THEN [bias |-> "SHORT_DOMINANT", risk |-> "LONG_SQUEEZE", score |-> -30]
    ELSE IF Lt(premium, Q(-3, 100))
    THEN [bias |-> "SHORT_BIAS", risk |-> "POTENTIAL_LIQUIDATION",
          score |-> -15]
    ELSE [bias |-> "NEUTRAL", risk |-> "NO_SQUEEZE", score |-> 0]

\* MarketStructureAnalyzer.detect_squeeze_setups; analyze_symbol always
\* passes a dict with the three keys, so "not trades" is false
detect_squeeze_setups(trades, premium, change_5m) ==
    [short_squeeze |->
        /\ Gt(trades.ratio, R(3))
        /\ Gt(premium, Q(5, 100))
        /\ Gt(change_5m, Q(-5, 10)),
     long_squeeze |->
        /\ trades.sells > trades.buys * 3
        /\ Lt(premium, Q(-5, 100))
        /\ Lt(change_5m, Q(5, 10))]

\* MarketStructureAnalyzer.detect_liquidity_bait
detect_liquidity_bait(ob_sentiment, trades, change_5m, raw_breakdown, failed_high) ==
    [bait_buy |->
        /\ ob_sentiment = "BULLISH"
        /\ Gt(trades.ratio, R(2))
        /\ Lt(change_5m, R(0))
        /\ ~ raw_breakdown,
     bait_sell |->
        /\ ob_sentiment = "BEARISH"
        /\ trades.sells > trades.buys * 2
        /\ Gt(change_5m, R(0))
        /\ ~ failed_high]

\* MarketStructureAnalyzer.detect_reversal_patterns
detect_reversal_patterns(change_24h, raw_breakdown, near_long_liq, near_short_liq, premium, ob_bias, premium_bias, price_change_5m) ==
    [overbought_reversal |->
        /\ Gt(change_24h, R(30))
        /\ raw_breakdown
        /\ near_long_liq
        /\ Lt(premium, Q(-2, 10)),
     oversold_reversal |->
        /\ Lt(change_24h, R(-20))
        /\ ~ raw_breakdown
        /\ near_short_liq
        /\ Gt(premium, Q(2, 10)),
     bid_liquidity_trap |->
        /\ ob_bias = "STRONG_BID"
        /\ premium_bias \in {"SHORT_DOMINANT", "SHORT_BIAS"}
        /\ Lt(price_change_5m, R(0))
        /\ (raw_breakdown \/ near_long_liq),
     ask_liquidity_trap |->
        /\ ob_bias = "STRONG_ASK"
        /\ premium_bias \in {"LONG_DOMINANT", "LONG_BIAS"}
        /\ Gt(price_change_5m, R(0))
        /\ (~ raw_breakdown \/ near_short_liq),
     bid_vs_premium_conflict |->
        /\ ob_bias \in {"STRONG_BID", "BID"}
        /\ premium_bias \in {"SHORT_DOMINANT", "SHORT_BIAS"},
     ask_vs_premium_conflict |->
        /\ ob_bias \in {"STRONG_ASK", "ASK"}
        /\ premium_bias \in {"LONG_DOMINANT", "LONG_BIAS"},
     extreme_overbought_cascade |->
        /\ Gt(change_24h, R(50))
        /\ raw_breakdown
        /\ near_long_liq
        /\ Lt(premium, Q(-5, 10)),
     extreme_oversold_cascade |->
        /\ Lt(change_24h, R(-40))
        /\ ~ raw_breakdown
        /\ near_short_liq
        /\ Gt(premium, Q(5, 10))]

----------------------------------------------------------------------------
(* analyze_symbol                                                          *)

\* "x or default" for an optional float: None and 0.0 are both falsy
FloatOr(opt, default) ==
    IF opt = None THEN default
    ELSE IF IsZero(Get(opt)) THEN default
    ELSE Get(opt)

\* "x or default" for an optional non-empty dict
DictOr(opt, default) == IF opt = None THEN default ELSE Get(opt)

\* analyze_symbol: change_24h = change_24h or 0.0
DefaultChange24h == R(0)

\* the orderbook default written as 0.0
DefaultObRatioZero == R(0)

\* analyze_symbol: ob_ratio = ob_ratio or 1.0
DefaultObRatio == R(1)

\* analyze_symbol: trades = trades or {...}
DefaultTrades == [buys |-> 0, sells |-> 0, ratio |-> R(1)]

\* analyze_symbol: premium_data = premium_data or {...}
DefaultPremium(price) ==
    [premium |-> R(0), funding |-> R(0), mark |-> price, index |-> price]

\* analyze_symbol: klines = klines or {...}
DefaultKlines(price) ==
    [highs |-> <<Mul(price, Q(101, 100)), price>>,
     lows |-> <<Mul(price, Q(99, 100)), price>>,
     closes |-> <<price, price>>]

\* recent low with the latest candle left out of the window
PrevLowExcludingLatest(lows) ==
    IF Len(lows) >= 2 THEN MinOf(LastN(SubSeq(lows, 1, Len(lows) - 1), 10))
    ELSE MinOf(lows)

\* analyze_symbol: prev_low = min(lows[-10:]) if len(lows) >= 10 else min(lows)
PrevLow(lows) == MinOf(LastN(lows, 10))

\* analyze_symbol: prev_high = max(highs[-10:]) if len(highs) >= 10
\* else max(highs)
PrevHigh(highs) == MaxOf(LastN(highs, 10))

\* analyze_symbol from the price check on, once the seven fetches are done;
\* the result says what is returned, whether the except clause was taken,
\* and what was handed to and left in the DecisionEngine
Analysis(symbol, price_opt, change_opt, ratio_opt, trades_opt, premium_opt, klines_opt, depth_opt) ==
    IF price_opt = None
    THEN [returned |-> None, caught |-> FALSE, evaluated |-> FALSE]
    ELSE
    LET price == Get(price_opt)
        change_24h == FloatOr(change_opt, DefaultChange24h)
        ob_ratio == FloatOr(ratio_opt, DefaultObRatio)
        trades == DictOr(trades_opt, DefaultTrades)
        premium_data == DictOr(premium_opt, DefaultPremium(price))
        klines == DictOr(klines_opt, DefaultKlines(price))
        highs == klines.highs
        lows == klines.lows
        closes == klines.closes
    IN
    IF Len(highs) = 0 \/ Len(lows) = 0
    THEN \* max() or min() of an empty list raises ValueError
         [returned |-> None, caught |-> TRUE, evaluated |-> FALSE]
    ELSE
    LET current_close == IF Len(closes) > 0 THEN closes[Len(closes)] ELSE price
        prev_high == PrevHigh(highs)
        prev_low == PrevLow(lows)
        price_changes == get_price_changes(closes)
        ema == get_ema_trend(closes)
        liq_zones == get_liquidation_zones(highs, lows, current_close)
        ob_sentiment == get_orderbook_sentiment(ob_ratio)
        premium_sentiment == get_premium_sentiment(premium_data.premium)
        raw_breakdown == Lt(current_close, prev_low)
        failed_high == Lt(current_close, prev_high)
        squeeze_setups ==
            detect_squeeze_setups(trades, premium_data.premium,
                                  price_changes.m5)
        bait_patterns ==
            detect_liquidity_bait(ob_sentiment.sentiment, trades,
                                  price_changes.m5, raw_breakdown, failed_high)
        reversal_patterns ==
            detect_reversal_patterns(change_24h, raw_breakdown,
                                     liq_zones.near_long_liq,
                                     liq_zones.near_short_liq,
                                     premium_data.premium, ob_sentiment.bias,
                                     premium_sentiment.bias, price_changes.m5)
        decision_data ==
            [change_24h |-> change_24h,
             ob |-> ob_sentiment,
             premium |-> premium_sentiment,
             setups |-> squeeze_setups,
             bait |-> bait_patterns,
             patterns |-> reversal_patterns,
             ema_trend |-> ema.label,
             liq_zones |-> liq_zones,
             structure |-> [raw_breakdown |-> raw_breakdown,
                            failed_high |-> failed_high,
                            price_change_5m |-> price_changes.m5]]
        chained == ApplyRules(NewEngine, decision_data)
        filtered1 == ApplyFilter1(chained, decision_data)
        filtered2 == ApplyFilter2(filtered1, decision_data)
        result == GetResult(filtered2)
    IN  [returned |-> Some(
           [symbol |-> symbol,
            price |-> IF ~ IsZero(price) THEN Round(price, 100) ELSE R(0),
            ob_ratio |-> ob_ratio,
            ob_bias |-> ob_sentiment.bias,
            ob_sentiment |-> ob_sentiment.sentiment,
            buy_sell_ratio |-> trades.ratio,
            buys |-> trades.buys,
            sells |-> trades.sells,
            premium |-> premium_data.premium,
            premium_bias |-> premium_sentiment.bias,
            premium_risk |-> premium_sentiment.risk,
            funding_rate |-> premium_data.funding,
            ema_slope |-> Round(ema.slope, 1000000),
            ema_trend |-> ema.label,
            change_24h |-> Round(change_24h, 100),
            change_1m |-> Round(price_changes.m1, 100),
            change_5m |-> Round(price_changes.m5, 100),
            change_15m |-> Round(price_changes.m15, 100),
            failed_high |-> failed_high,
            raw_breakdown |-> raw_breakdown,
            near_long_liq |-> liq_zones.near_long_liq,
            near_short_liq |-> liq_zones.near_short_liq,
            long_liq_distance |-> Round(liq_zones.long_liq_distance, 100),
            short_liq_distance |-> Round(liq_zones.short_liq_distance, 100),
            is_short_squeeze |-> squeeze_setups.short_squeeze,
            is_long_squeeze |-> squeeze_setups.long_squeeze,
            liquidity_bait_buy |-> bait_patterns.bait_buy,
            liquidity_bait_sell |-> bait_patterns.bait_sell,
            overbought_reversal |-> reversal_patterns.overbought_reversal,
            oversold_reversal |-> reversal_patterns.oversold_reversal,
            bid_liquidity_trap |-> reversal_patterns.bid_liquidity_trap,
            ask_liquidity_trap |-> reversal_patterns.ask_liquidity_trap,
            bid_vs_premium_conflict |->
                reversal_patterns.bid_vs_premium_conflict,
            ask_vs_premium_conflict |->
                reversal_patterns.ask_vs_premium_conflict,
            extreme_overbought_cascade |->
                reversal_patterns.extreme_overbought_cascade,
            extreme_oversold_cascade |->
                reversal_patterns.extreme_oversold_cascade,
            opinion |-> result.opinion,
            reason |-> result.reason,
            confidence |-> result.confidence,
            liquidation_alert |-> result.liquidation_alert,
            valid_breakdown |-> result.valid_breakdown,
            fake_breakdown |-> result.fake_breakdown]),
         caught |-> FALSE,
         evaluated |-> TRUE,
         decision_data |-> decision_data,
         chained |-> chained,
         filtered1 |-> filtered1,
         filtered2 |-> filtered2,
         result |-> result]

----------------------------------------------------------------------------
(* One call of analyze_symbol on the payloads the exchange returned.  Each *)
(* of the seven payloads is None (the fetch failed), a reference payload,  *)
(* or another payload; at most MaxVaried of them are another payload.      *)

MaxVaried == 3

MaxTail == 2

Text(x) == [ok |-> TRUE, val |-> x]

BadText == [ok |-> FALSE, val |-> R(0)]

RefPrice == Some([price |-> Text(R(100))])

PricePayloads ==
    {None, RefPrice,
     Some([msg |-> Text(R(0))]),
     Some([price |-> BadText]),
     Some([price |-> Text(R(0))])}

RefChange == Some([priceChangePercent |-> Text(R(5))])

ChangePayloads ==
    {None, RefChange} \cup
    { Some([priceChangePercent |-> Text(R(n))]) : n \in {-45, -25, -15, 55} }

Book(bids, asks) == Some([bids |-> bids, asks |-> asks])

\* six bid levels: only the first five count
RefBook == Book(<<40, 30, 20, 5, 5, 900>>, <<50, 50>>)

BookPayloads ==
    {None, RefBook,
     Some([msg |-> Text(R(0))]),
     Book(<<50>>, <<>>), Book(<<>>, <<50>>), Book(<<1>>, <<1000>>),
     Book(<<30>>, <<100>>), Book(<<60>>, <<100>>),
     Book(<<150>>, <<100>>), Book(<<250>>, <<100>>)}

\* the last 20 trades, the first b of them taker buys
Trades(b) == Some([i \in 1..20 |-> [isBuyerMaker |-> i > b]])

RefTrades == Trades(10)

TradesPayloads == {None, RefTrades, Some(<<>>), Trades(20), Trades(16), Trades(4)}

Premium(mark, index) ==
    Some([markPrice |-> Text(R(mark)), indexPrice |-> Text(R(index)),
          lastFundingRate |-> Text(Q(1, 10000))])

RefPremium == Premium(10000, 10000)

PremiumPayloads ==
    {None, RefPremium, Premium(10000, 0)} \cup
    { Premium(m, 10000) : m \in {9940, 9994, 10006, 10060} }

\* a candle row <<open time, open, high, low, close, volume>>
Candle(high, low, close) == <<0, close, high, low, close, 1>>

FlatCandle == Candle(101, 99, 100)

UpCandle == Candle(112, 100, 110)

DownCandle == Candle(100, 88, 90)

NineFlat == [i \in 1..9 |-> FlatCandle]

RECURSIVE Tails(_)
Tails(n) ==
    IF n = 0 THEN {<<>>}
    ELSE LET shorter == Tails(n - 1)
         IN  shorter \cup
             { Append(t, c) : t \in shorter,
                              c \in {FlatCandle, UpCandle, DownCandle} }

\* a row cut after its first n entries
Cut(row, n) == SubSeq(row, 1, n)

RefKlines == Some(NineFlat \o <<FlatCandle>>)

KlinesPayloads ==
    {None} \cup
    { Some(base \o tail) : base \in {<<>>, NineFlat}, tail \in Tails(MaxTail) }
    \cup { Some(<<Cut(FlatCandle, n)>>) : n \in 2..4 }
    \cup { Some(NineFlat \o <<Cut(DownCandle, 3)>>) }

DepthPayloads == {None, RefBook}

\* number of payloads that are neither None nor the reference payload
Varied(p, c, b, t, f, k) ==
    LET V(x, ref) == IF x \in {None, ref} THEN 0 ELSE 1
    IN  V(p, RefPrice) + V(c, RefChange) + V(b, RefBook) + V(t, RefTrades)
        + V(f, RefPremium) + V(k, RefKlines)

Init ==
    /\ \E p \in PricePayloads, c \in ChangePayloads, b \in BookPayloads,
          t \in TradesPayloads, f \in PremiumPayloads, k \in KlinesPayloads,
          d \in DepthPayloads :
          /\ Varied(p, c, b, t, f, k) <= MaxVaried
          /\ raw = Some([symbol |-> "BTCUSDT", price |-> p, change_24h |-> c,
                         book |-> b, trades |-> t, premium |-> f,
                         klines |-> k, depth |-> d])
    /\ engine = NewEngine
    /\ data = NoData
    /\ after_rules = NoData
    /\ after_filter1 = NoData
    /\ decision = NoData
    /\ self_at_entry = NoData
    /\ calls = 0
    /\ pc = "start"
    /\ snapshot = None
    /\ args = NoData
    /\ ret = NoData
    /\ app = NoData

\* analyze_symbol(symbol): the seven fetches, then the analysis
AnalyzeSymbol ==
    /\ pc = "start"
    /\ \E a \in {LET r == Get(raw) IN Analysis(r.symbol,
                         get_price(r.price),
                         get_24h_change(r.change_24h),
                         get_orderbook_ratio(r.book),
                         get_trades_flow(r.trades),
                         get_funding_premium(r.premium),
                         get_klines(r.klines),
                         get_depth(r.depth))} :
           /\ snapshot' = a.returned
           /\ IF a.evaluated
              THEN /\ data' = a.decision_data
                   /\ self_at_entry' = NewEngine
                   /\ after_rules' = a.chained
                   /\ after_filter1' = a.filtered1
                   /\ engine' = a.filtered2
                   /\ decision' = a.result
                   /\ calls' = 1
              ELSE UNCHANGED <<data, self_at_entry, after_rules,
                               after_filter1, engine, decision, calls>>
    /\ pc' = "done"
    /\ UNCHANGED <<raw, args, ret, app>>

Next == AnalyzeSymbol

Spec == Init /\ [][Next]_vars

----------------------------------------------------------------------------
(* Properties of analyze_symbol                                            *)

\* the price payload carries no usable price: the fetch failed, the key is
\* missing, or its text is not a number
PriceMissing ==
    \/ Get(raw).price = None
    \/ "price" \notin DOMAIN Get(Get(raw).price)
    \/ ~ Get(Get(raw).price).price.ok

\* the price analyze_symbol works with, when it is not missing
FetchedPrice == Get(Get(raw).price).price.val

\* what the six other fetches returned
Fetched ==
    [change_24h |-> get_24h_change(Get(raw).change_24h),
     ob_ratio |-> get_orderbook_ratio(Get(raw).book),
     trades |-> get_trades_flow(Get(raw).trades),
     premium |-> get_funding_premium(Get(raw).premium),
     klines |-> get_klines(Get(raw).klines),
     depth |-> get_depth(Get(raw).depth)]

\* C6: when the price fetch yields absence, analyze_symbol returns None,
\* whatever the other six fetches returned.
C6_NoPriceNoSnapshot ==
    (pc = "done" /\ PriceMissing) => snapshot = None

\* the price fetch failed while book, trades, premium and candles all
\* arrived, and None was returned
C6_Witness ==
    /\ pc = "done"
    /\ Get(raw).price = None
    /\ Get(raw).book = RefBook
    /\ Get(raw).trades = RefTrades
    /\ Get(raw).premium = RefPremium
    /\ Get(raw).klines = RefKlines
    /\ snapshot = None

\* C7: with the price present a Snapshot is returned whatever the other six
\* fetches returned and whichever of them are absent, and each absent field
\* shows its own default in the Snapshot whatever the other fields are.
C7_DefaultsPerField ==
    (pc = "done" /\ ~ PriceMissing) =>
        /\ snapshot # None
        /\ Fetched.change_24h = None => NumEq(Get(snapshot).change_24h, R(0))
        /\ Fetched.ob_ratio = None =>
               /\ NumEq(Get(snapshot).ob_ratio, R(1))
               /\ Get(snapshot).ob_bias = "NEUTRAL"
               /\ Get(snapshot).ob_sentiment = "NEUTRAL"
        /\ Fetched.trades = None =>
               /\ Get(snapshot).buys = 0
               /\ Get(snapshot).sells = 0
               /\ NumEq(Get(snapshot).buy_sell_ratio, R(1))
        /\ Fetched.premium = None =>
               /\ NumEq(Get(snapshot).premium, R(0))
               /\ NumEq(Get(snapshot).funding_rate, R(0))
               /\ Get(snapshot).premium_bias = "NEUTRAL"
        /\ Fetched.klines = None =>
               /\ NumEq(Get(snapshot).change_1m, R(0))
               /\ NumEq(Get(snapshot).change_5m, R(0))
               /\ NumEq(Get(snapshot).change_15m, R(0))
               /\ Get(snapshot).ema_trend = "FLAT"
               /\ ~ Get(snapshot).raw_breakdown
               /\ Get(snapshot).failed_high <=> Gt(FetchedPrice, R(0))

\* a non-empty candle payload with a row cut before its close entry
CandlesMalformed ==
    /\ Get(raw).klines # None
    /\ Len(Get(Get(raw).klines)) > 0
    /\ \E i \in 1..Len(Get(Get(raw).klines)) :
           Len(Get(Get(raw).klines)[i]) < 5

\* the Snapshot analyze_symbol returns for these payloads when the candle
\* field is absent
SnapshotWithoutCandles ==
    Analysis(Get(raw).symbol, get_price(Get(raw).price), Fetched.change_24h,
             Fetched.ob_ratio, Fetched.trades, Fetched.premium, None,
             Fetched.depth).returned

\* C8: a malformed candle payload counts as absence of the candle field
\* alone: with the price present a Snapshot is returned, and it is the one
\* built from the candle defaults.
C8_MalformedCandlesAreAbsent ==
    (pc = "done" /\ ~ PriceMissing /\ CandlesMalformed) =>
        /\ snapshot # None
        /\ snapshot = SnapshotWithoutCandles

AllOthersAbsent ==
    /\ Fetched.change_24h = None
    /\ Fetched.ob_ratio = None
    /\ Fetched.trades = None
    /\ Fetched.premium = None
    /\ Fetched.klines = None
    /\ Fetched.depth = None

\* C9: with the price present and every other field absent the Snapshot
\* exists and carries the default decision NEUTRAL / LOW / NO_CLEAR_SIGNAL
\* with all twelve pattern flags false.
C9_AllDefaultsNeutral ==
    (pc = "done" /\ ~ PriceMissing /\ AllOthersAbsent) =>
        /\ snapshot # None
        /\ Get(snapshot).opinion = "NEUTRAL"
        /\ Get(snapshot).confidence = "LOW"
        /\ Get(snapshot).reason = "NO_CLEAR_SIGNAL"
        /\ ~ Get(snapshot).is_short_squeeze
        /\ ~ Get(snapshot).is_long_squeeze
        /\ ~ Get(snapshot).liquidity_bait_buy
        /\ ~ Get(snapshot).liquidity_bait_sell
        /\ ~ Get(snapshot).overbought_reversal
        /\ ~ Get(snapshot).oversold_reversal
        /\ ~ Get(snapshot).bid_liquidity_trap
        /\ ~ Get(snapshot).ask_liquidity_trap
        /\ ~ Get(snapshot).bid_vs_premium_conflict
        /\ ~ Get(snapshot).ask_vs_premium_conflict
        /\ ~ Get(snapshot).extreme_overbought_cascade
        /\ ~ Get(snapshot).extreme_oversold_cascade

\* price 100 and nothing else: the defaulted candles put the price next to
\* both liquidation zones, and the decision is still the default
C9_Witness ==
    /\ pc = "done"
    /\ Get(raw).price = RefPrice
    /\ AllOthersAbsent
    /\ snapshot # None
    /\ Get(snapshot).near_long_liq
    /\ Get(snapshot).near_short_liq
    /\ Get(snapshot).opinion = "NEUTRAL"
    /\ Get(snapshot).reason = "NO_CLEAR_SIGNAL"
    /\ decision.reason = "NO_CLEAR_SIGNAL"

\* the candle lists analyze_symbol works with
UsedKlines ==
    DictOr(Fetched.klines, DefaultKlines(FetchedPrice))

\* C10: raw_breakdown is true exactly when the current close is below the
\* low of the candles before the latest one, failed_high exactly when it is
\* below the high of the candles before the latest one, and the resolver
\* and the Snapshot carry these same two values.
C10_BreakdownExcludesLatest ==
    (pc = "done" /\ snapshot # None /\ Len(UsedKlines.lows) >= 2
       /\ Len(UsedKlines.highs) >= 2 /\ Len(UsedKlines.closes) >= 1) =>
        LET closes == UsedKlines.closes
            current_close == closes[Len(closes)]
            before_low == PrevLowExcludingLatest(UsedKlines.lows)
            before_high ==
                MaxOf(LastN(SubSeq(UsedKlines.highs, 1,
                                   Len(UsedKlines.highs) - 1), 10))
        IN  /\ Get(snapshot).raw_breakdown <=> Lt(current_close, before_low)
            /\ Get(snapshot).failed_high <=> Lt(current_close, before_high)
            /\ data.structure.raw_breakdown = Get(snapshot).raw_breakdown
            /\ data.structure.failed_high = Get(snapshot).failed_high

----------------------------------------------------------------------------
(* Consistency of the two breakdown marks in a returned decision           *)

\* C18: in every decision evaluate returns, valid_breakdown and
\* fake_breakdown are never both true, a LONG decision never carries
\* valid_breakdown and a SHORT decision never carries fake_breakdown.
C18_BreakdownMarksConsistent ==
    pc = "returned" =>
        /\ ~ (decision.valid_breakdown /\ decision.fake_breakdown)
        /\ decision.opinion = "LONG" => ~ decision.valid_breakdown
        /\ decision.opinion = "SHORT" => ~ decision.fake_breakdown

----------------------------------------------------------------------------
(* Direct calls of the analyzer and fetcher methods.  One method is called *)
(* once on arguments drawn from the sets below; args names the method and  *)
(* carries its arguments, ret is what it returned.                         *)

MaxCloses == 16

MaxRatio == 300

MaxVol == 12

CloseValues == {R(0), R(100), R(110), R(1999), R(2001)}

\* i closes of value a followed by j closes of value b
Steps(a, i, b, j) == [k \in 1..(i + j) |-> IF k <= i THEN a ELSE b]

CloseLists ==
    { Steps(a, i, b, j) : a \in CloseValues, b \in CloseValues,
                          i \in 0..MaxCloses, j \in 0..MaxCloses }

BoundedCloseLists == { c \in CloseLists : Len(c) <= MaxCloses }

\* orderbook ratios in hundredths, and the cap
Ratios == { Q(n, 100) : n \in 0..MaxRatio } \cup {R(99)}

\* one side of a book: no level, or one level of some quantity
Sides == {<<>>} \cup { <<v>> : v \in 0..MaxVol } \cup {<<1000>>}

DirectBooks ==
    {None, Some([msg |-> Text(R(0))])}
    \cup { Book(b, a) : b \in Sides, a \in Sides }

DirectTrades == {None, Some(<<>>)} \cup { Trades(b) : b \in 0..20 }

DirectPremiums ==
    {None} \cup { Premium(m, i) : m \in {0, 9940, 10000, 10060},
                                  i \in {0, 10000} }

CallArgs ==
    { [method |-> "get_price_changes", closes |-> c] :
          c \in BoundedCloseLists }
    \cup { [method |-> "get_ema_trend", closes |-> c] :
               c \in BoundedCloseLists }
    \cup { [method |-> "get_orderbook_sentiment", ratio |-> r] :
               r \in Ratios }
    \cup { [method |-> "get_orderbook_ratio", book |-> b] :
               b \in DirectBooks }
    \cup { [method |-> "get_trades_flow", trades |-> t] :
               t \in DirectTrades }
    \cup { [method |-> "get_funding_premium", premium |-> f] :
               f \in DirectPremiums }

InitCalls ==
    /\ args \in CallArgs
    /\ ret = NoData
    /\ app = NoData
    /\ pc = "ready"
    /\ engine = NewEngine
    /\ data = NoData
    /\ after_rules = NoData
    /\ after_filter1 = NoData
    /\ decision = NoData
    /\ self_at_entry = NoData
    /\ calls = 0
    /\ raw = NoRaw
    /\ snapshot = NoData

\* the called method runs to its return
Returns(method, value) ==
    /\ pc = "ready"
    /\ args.method = method
    /\ ret' = value
    /\ pc' = "applied"
    /\ UNCHANGED <<engine, data, after_rules, after_filter1, decision,
                   self_at_entry, calls, raw, snapshot, args, app>>

CallPriceChanges ==
    /\ args.method = "get_price_changes"
    /\ Returns("get_price_changes", get_price_changes(args.closes))

CallEmaTrend ==
    /\ args.method = "get_ema_trend"
    /\ Returns("get_ema_trend", get_ema_trend(args.closes))

CallOrderbookSentiment ==
    /\ args.method = "get_orderbook_sentiment"
    /\ Returns("get_orderbook_sentiment",
               get_orderbook_sentiment(args.ratio))

CallOrderbookRatio ==
    /\ args.method = "get_orderbook_ratio"
    /\ Returns("get_orderbook_ratio", get_orderbook_ratio(args.book))

CallTradesFlow ==
    /\ args.method = "get_trades_flow"
    /\ Returns("get_trades_flow", get_trades_flow(args.trades))

CallFundingPremium ==
    /\ args.method = "get_funding_premium"
    /\ Returns("get_funding_premium", get_funding_premium(args.premium))

NextCalls ==
    \/ CallPriceChanges
    \/ CallEmaTrend
    \/ CallOrderbookSentiment
    \/ CallOrderbookRatio
    \/ CallTradesFlow
    \/ CallFundingPremium

SpecCalls == InitCalls /\ [][NextCalls]_vars

----------------------------------------------------------------------------
(* Properties of the analyzer and fetcher methods                          *)

\* the change over h candles: the last close against the close h candles
\* back, 0 when there are fewer than h + 1 closes or that close is zero
ChangeOverHorizon(closes, h) ==
    LET last == Len(closes)
    IN  IF last >= h + 1 /\ ~ IsZero(closes[last - h])
        THEN Mul(Div(Sub(closes[last], closes[last - h]), closes[last - h]),
                 R(100))
        ELSE R(0)

\* C11: for each horizon h in {1, 5, 15} get_price_changes returns the
\* change of the last close against the close h candles back, and 0 when
\* fewer than h + 1 closes exist or that earlier close is zero.
C11_ChangeOverHorizon ==
    (pc = "applied" /\ args.method = "get_price_changes") =>
        /\ NumEq(ret.m1, ChangeOverHorizon(args.closes, 1))
        /\ NumEq(ret.m5, ChangeOverHorizon(args.closes, 5))
        /\ NumEq(ret.m15, ChangeOverHorizon(args.closes, 15))

\* the five classes of the orderbook classification
ObClass(bias, sentiment, score) ==
    [bias |-> bias, sentiment |-> sentiment, score |-> score]

\* C12: the orderbook classification compares strictly: above 2.0 is
\* STRONG_BID, above 1.2 up to and including 2.0 is BID, below 0.5 is
\* STRONG_ASK, from 0.5 up to but excluding 0.8 is ASK, and from 0.8 to 1.2,
\* both included, is NEUTRAL; every ratio gets exactly one class.
C12_StrictThresholds ==
    (pc = "applied" /\ args.method = "get_orderbook_sentiment") =>
        LET r == args.ratio
        IN  /\ Gt(r, R(2)) <=> ret = ObClass("STRONG_BID", "BULLISH", 40)
            /\ (Gt(r, Q(12, 10)) /\ Le(r, R(2)))
                   <=> ret = ObClass("BID", "BULLISH_BIAS", 20)
            /\ Lt(r, Q(5, 10)) <=> ret = ObClass("STRONG_ASK", "BEARISH", -40)
            /\ (Ge(r, Q(5, 10)) /\ Lt(r, Q(8, 10)))
                   <=> ret = ObClass("ASK", "BEARISH_BIAS", -20)
            /\ (Ge(r, Q(8, 10)) /\ Le(r, Q(12, 10)))
                   <=> ret = ObClass("NEUTRAL", "NEUTRAL", 0)

\* a ratio of exactly 2.0 classified as BID
C12_Witness ==
    /\ pc = "applied"
    /\ args.method = "get_orderbook_sentiment"
    /\ NumEq(args.ratio, R(2))
    /\ ret = ObClass("BID", "BULLISH_BIAS", 20)

\* a book payload with both sides arrived
BookArrived ==
    /\ args.method = "get_orderbook_ratio"
    /\ args.book # None
    /\ {"bids", "asks"} \subseteq DOMAIN Get(args.book)

\* the volumes of the top five levels of each side
BidVolume == SumInts(FirstN(Get(args.book).bids, 5))

AskVolume == SumInts(FirstN(Get(args.book).asks, 5))

\* the sentinels of the premium and of the trade ratio, and the cap
OtherSentinels ==
    /\ (args.method = "get_funding_premium" /\ args.premium # None
          /\ IsZero(Get(args.premium).indexPrice.val)) =>
           /\ ret # None
           /\ NumEq(Get(ret).premium, R(0))
    /\ (args.method = "get_trades_flow" /\ args.trades \notin {None, Some(<<>>)}
          /\ \A i \in 1..Len(Get(args.trades)) :
                 ~ Get(args.trades)[i].isBuyerMaker) =>
           /\ ret # None
           /\ Get(ret).sells = 0
           /\ NumEq(Get(ret).ratio, R(99))
    /\ BookArrived =>
           /\ ret # None
           /\ Le(Get(ret), R(99))
           /\ AskVolume = 0 => NumEq(Get(ret), R(99))

\* C13 as stated: index price 0 gives premium 0, zero ask volume gives
\* ratio 99.0, zero bid volume gives ratio 0.01, zero sells gives trade
\* ratio 99.0, and the orderbook ratio never exceeds 99.0.
C13_Sentinels ==
    pc = "applied" =>
        /\ OtherSentinels
        /\ (BookArrived /\ BidVolume = 0) => NumEq(Get(ret), Q(1, 100))

\* C13 amended: as above, but zero bid volume gives 0.01 only against a
\* non-zero ask volume; a book with both volumes zero gives 99.0.
C13_SentinelsAskFirst ==
    pc = "applied" =>
        /\ OtherSentinels
        /\ (BookArrived /\ BidVolume = 0 /\ AskVolume # 0) =>
               NumEq(Get(ret), Q(1, 100))
        /\ (BookArrived /\ BidVolume = 0 /\ AskVolume = 0) =>
               NumEq(Get(ret), R(99))

\* bids far above a hundred times the asks: the ratio is cut to 99.0
C13_Witness ==
    /\ pc = "applied"
    /\ BookArrived
    /\ BidVolume = 1000
    /\ AskVolume = 1
    /\ ret = Some(R(99))

\* C14: with fewer than 10 closes get_ema_trend returns slope 0 and FLAT;
\* otherwise the slope is (mean of the last 5 closes - mean of the last 10)
\* / mean of the last 10 (where that mean is zero the quotient has no value
\* and the slope returned is 0), and the label is UP exactly when the slope
\* is above 0.0005, DOWN exactly when it is below -0.0005, FLAT otherwise.
C14_EmaTrend ==
    (pc = "applied" /\ args.method = "get_ema_trend") =>
        LET closes == args.closes
            short == Mean(LastN(closes, 5))
            long == Mean(LastN(closes, 10))
        IN  IF Len(closes) < 10
            THEN ret = [slope |-> R(0), label |-> "FLAT"]
            ELSE /\ IF IsZero(long) THEN IsZero(ret.slope)
                    ELSE NumEq(ret.slope, Div(Sub(short, long), long))
                 /\ ret.label = "UP" <=> Gt(ret.slope, Q(5, 10000))
                 /\ ret.label = "DOWN" <=> Lt(ret.slope, Q(-5, 10000))
                 /\ ret.label = "FLAT" <=>
                        /\ Le(ret.slope, Q(5, 10000))
                        /\ Ge(ret.slope, Q(-5, 10000))

\* five closes of 1999 then five of 2001: the slope is exactly 0.0005 and
\* the label is FLAT
C14_Witness ==
    /\ pc = "applied"
    /\ args.method = "get_ema_trend"
    /\ args.closes = Steps(R(1999), 5, R(2001), 5)
    /\ NumEq(ret.slope, Q(5, 10000))
    /\ ret.label = "FLAT"

\* the trend call on nine closes of 100 followed by 110
NineThenJump ==
    /\ pc = "applied"
    /\ args.method = "get_ema_trend"
    /\ args.closes = Steps(R(100), 9, R(110), 1)

\* C15 as stated: for nine closes of 100 followed by 110 the short mean is
\* 104, the long mean is 101, the slope is (104 - 101) / 101, which is
\* above 0.0005, and the label is UP.
C15_WorkedExample ==
    NineThenJump =>
        /\ NumEq(Mean(LastN(args.closes, 5)), R(104))
        /\ NumEq(Mean(LastN(args.closes, 10)), R(101))
        /\ NumEq(ret.slope, Q(3, 101))
        /\ Gt(ret.slope, Q(5, 10000))
        /\ ret.label = "UP"

\* C15 amended: for nine closes of 100 followed by 110 the short mean is
\* 102, the long mean is 101, the slope is (102 - 101) / 101, which is
\* above 0.0005, and the label is UP.
C15_WorkedExampleMean102 ==
    NineThenJump =>
        /\ NumEq(Mean(LastN(args.closes, 5)), R(102))
        /\ NumEq(Mean(LastN(args.closes, 10)), R(101))
        /\ NumEq(ret.slope, Q(1, 101))
        /\ Gt(ret.slope, Q(5, 10000))
        /\ ret.label = "UP"

\* the call of the example has returned UP
C15_Witness ==
    /\ NineThenJump
    /\ ret = [slope |-> Q(1, 101), label |-> "UP"]

----------------------------------------------------------------------------
(* Further properties of analyze_symbol                                    *)

\* C16: in the Snapshot of a symbol whose candle field is absent all
\* liquidation-zone outputs are at their defaults: near_long_liq and
\* near_short_liq false, both distances 0.
C16_ZonesDefaultWithoutCandles ==
    (pc = "done" /\ ~ PriceMissing /\ Fetched.klines = None) =>
        /\ snapshot # None
        /\ ~ Get(snapshot).near_long_liq
        /\ ~ Get(snapshot).near_short_liq
        /\ IsZero(Get(snapshot).long_liq_distance)
        /\ IsZero(Get(snapshot).short_liq_distance)

\* the candle payload is absent, or each of its rows is complete with
\* low <= close <= high
CandlesWellFormed ==
    \/ Get(raw).klines = None
    \/ \A i \in 1..Len(Get(Get(raw).klines)) :
           LET row == Get(Get(raw).klines)[i]
           IN  /\ Len(row) = 6
               /\ row[4] <= row[5]
               /\ row[5] <= row[3]

\* C19: with well-formed candles raw_breakdown is false in the Snapshot,
\* so extreme_overbought_cascade and overbought_reversal are false and the
\* ANTI_OVERBOUGHT_LONG_ filter does not fire.
C19_RawBreakdownNeverTrue ==
    (pc = "done" /\ snapshot # None /\ CandlesWellFormed) =>
        /\ ~ Get(snapshot).raw_breakdown
        /\ ~ data.structure.raw_breakdown
        /\ ~ Get(snapshot).extreme_overbought_cascade
        /\ ~ Get(snapshot).overbought_reversal
        /\ engine = after_filter1
        /\ Get(snapshot).reason # "ANTI_OVERBOUGHT_LONG_" \o after_rules.reason

\* after nine flat candles the last candle closes at 90, below the low 99
\* of every candle before it, with a 24h change of 55 and a premium of
\* -0.6: raw_breakdown is still false
C19_Witness ==
    /\ pc = "done"
    /\ Get(raw).klines = Some(NineFlat \o <<DownCandle>>)
    /\ Get(raw).change_24h = Some([priceChangePercent |-> Text(R(55))])
    /\ Get(raw).premium = Premium(9940, 10000)
    /\ snapshot # None
    /\ Lt(R(90), PrevLowExcludingLatest(UsedKlines.lows))
    /\ ~ Get(snapshot).raw_breakdown
    /\ ~ Get(snapshot).extreme_overbought_cascade

\* C20: in every Snapshot the sentiment is BULLISH exactly when the bias is
\* STRONG_BID and BEARISH exactly when it is STRONG_ASK; so the rules of
\* priority 4 and of priority 6 never fire: whenever the condition of one
\* of them holds, a rule of priority 0 to 3 fires.
C20_SentimentFollowsStrongBias ==
    (pc = "done" /\ snapshot # None) =>
        /\ Get(snapshot).ob_sentiment = "BULLISH" <=>
               Get(snapshot).ob_bias = "STRONG_BID"
        /\ Get(snapshot).ob_sentiment = "BEARISH" <=>
               Get(snapshot).ob_bias = "STRONG_ASK"
        /\ after_rules.reason \notin
               {"PREMIUM_OB_CONFIRMATION", "LONG_LIQ_CASCADE",
                "SHORT_LIQ_CASCADE"}
        /\ (\E i \in {15, 16, 19, 20} : RuleHolds(i, data)) =>
               FirstRule(data) <= 14

\* a LONG_DOMINANT premium with a BULLISH book: the priority-4 condition
\* holds and the priority-3 rule STRONG_BUY_PRESSURE is the one that fired
C20_Witness ==
    /\ pc = "done"
    /\ snapshot # None
    /\ RuleHolds(15, data)
    /\ FirstRule(data) = 13
    /\ Get(snapshot).reason = "STRONG_BUY_PRESSURE"

\* C21: a fetched orderbook ratio is classified by its own value: the
\* Snapshot carries the fetched ratio and its class, so a ratio that rounds
\* to 0.00 is STRONG_ASK / BEARISH; the default 1.0 is for an absent ratio
\* only.
C21_FetchedRatioClassified ==
    (pc = "done" /\ snapshot # None /\ Fetched.ob_ratio # None) =>
        LET class == get_orderbook_sentiment(Get(Fetched.ob_ratio))
        IN  /\ NumEq(Get(snapshot).ob_ratio, Get(Fetched.ob_ratio))
            /\ Get(snapshot).ob_bias = class.bias
            /\ Get(snapshot).ob_sentiment = class.sentiment

----------------------------------------------------------------------------
(* What the filters leave alone                                            *)

\* C22: a filter that fires changes only the opinion, the reason (by its
\* prefix) and the one breakdown flag it sets; the confidence, the alert
\* and the other breakdown flag stay as the fired rule set them, and when
\* no filter fires the decision is the fired rule's outcome.
C22_FilterFrame ==
    pc = "returned" =>
        /\ decision.confidence = after_rules.confidence
        /\ decision.liquidation_alert = after_rules.liquidation_alert
        /\ IF Filter1Cond(after_rules, data)
           THEN /\ decision.opinion = "LONG"
                /\ decision.reason =
                       "ANTI_OVERSOLD_SHORT_" \o after_rules.reason
                /\ decision.fake_breakdown
                /\ decision.valid_breakdown = after_rules.valid_breakdown
           ELSE IF Filter2Cond(after_rules, data)
           THEN /\ decision.opinion = "SHORT"
                /\ decision.reason =
                       "ANTI_OVERBOUGHT_LONG_" \o after_rules.reason
                /\ decision.valid_breakdown
                /\ decision.fake_breakdown = after_rules.fake_breakdown
           ELSE decision = GetResult(after_rules)

\* the first filter fired on a SHORT decision marked valid_breakdown with
\* confidence HIGH: the mark and the confidence are still there
C22_Witness ==
    /\ pc = "returned"
    /\ Filter1Cond(after_rules, data)
    /\ after_rules.valid_breakdown
    /\ after_rules.confidence = "HIGH"
    /\ decision.opinion = "LONG"
    /\ decision.valid_breakdown
    /\ decision.confidence = "HIGH"

----------------------------------------------------------------------------
(* The serving layer (app.py).  Its globals are app_initialized,           *)
(* telegram_client, whale_messages_cache and last_update_time.  Thread 0   *)
(* is the scheduler's worker, which runs run_async_fetch; threads          *)
(* 1..MaxRequests each serve one request, which starts in the              *)
(* before_request hook initialize_once.  Threads interleave between        *)
(* statements that read or write a global.                                 *)

MaxRequests == 2

MaxJobs == 2

Scheduler == 0

Requests == 1..MaxRequests

Threads == {Scheduler} \cup Requests

\* get_dummy_whale_data(): three entries without an id
DummyData ==
    << [pair |-> "BTCUSDT", type |-> "SHORT"],
       [pair |-> "ETHUSDT", type |-> "LONG"],
       [pair |-> "XRPUSDT", type |-> "SHORT"] >>

\* the lists a fetch at time n can collect: no matching message, or one
ChannelMessages(n) == {<<>>, <<[id |-> n, pair |-> "BTCUSDT", type |-> "LONG"]>>}

\* where a thread goes on when fetch_whale_messages has returned
AfterFetch(t) == IF t = Scheduler THEN "idle" ELSE "flag"

InitApp ==
    /\ \E credentials \in BOOLEAN :
           app = [has_credentials |-> credentials,
                  app_initialized |-> FALSE,
                  telegram_client |-> "none",
                  whale_messages_cache |-> <<>>,
                  last_update_time |-> None,
                  now |-> 0,
                  jobs |-> 0,
                  pc |-> [t \in Threads |->
                             IF t = Scheduler THEN "idle" ELSE "start"],
                  entered |-> {},
                  outcome |-> [t \in Threads |-> "none"],
                  returned |-> [t \in Threads |-> <<>>]]
    /\ engine = NewEngine
    /\ data = NoData
    /\ after_rules = NoData
    /\ after_filter1 = NoData
    /\ decision = NoData
    /\ self_at_entry = NoData
    /\ calls = 0
    /\ pc = "serving"
    /\ raw = NoRaw
    /\ snapshot = NoData
    /\ args = NoData
    /\ ret = NoData

\* a step of the serving layer leaves everything else alone
Serving(next) ==
    /\ pc = "serving"
    /\ app' = next
    /\ UNCHANGED <<engine, data, after_rules, after_filter1, decision,
                   self_at_entry, calls, pc, raw, snapshot, args, ret>>

\* initialize_once: if not app_initialized
CheckInitialized(r) ==
    /\ pc = "serving"
    /\ app.pc[r] = "start"
    /\ IF ~ app.app_initialized
       THEN Serving([app EXCEPT !.pc[r] = "body",
                                !.entered = @ \cup {r}])
       ELSE Serving([app EXCEPT !.pc[r] = "handled"])

\* initialize_once: the credentials check; without credentials the cache
\* is assigned the dummy data
CheckCredentials(r) ==
    /\ pc = "serving"
    /\ app.pc[r] = "body"
    /\ IF ~ app.has_credentials
       THEN Serving([app EXCEPT !.whale_messages_cache = DummyData,
                                !.pc[r] = "flag"])
       ELSE Serving([app EXCEPT !.pc[r] = "init_telegram"])

\* init_telegram: telegram_client = TelegramClient(...), which may raise
CreateClient(r) ==
    /\ pc = "serving"
    /\ app.pc[r] = "init_telegram"
    /\ \/ Serving([app EXCEPT !.telegram_client = "unstarted",
                              !.pc[r] = "starting"])
       \/ Serving([app EXCEPT !.pc[r] = "dummy"])

\* init_telegram: await telegram_client.start() and get_entity; on success
\* True is returned and initialize_once goes on to fetch; when get_entity
\* or start() raises, False is returned and the client object stays
\* assigned, started or not
StartClient(r) ==
    /\ pc = "serving"
    /\ app.pc[r] = "starting"
    /\ \/ Serving([app EXCEPT !.telegram_client = "started",
                              !.pc[r] = "fetch_check"])
       \/ Serving([app EXCEPT !.telegram_client = "started",
                              !.pc[r] = "dummy"])
       \/ Serving([app EXCEPT !.pc[r] = "dummy"])

\* initialize_once: whale_messages_cache = get_dummy_whale_data()
AssignDummy(r) ==
    /\ pc = "serving"
    /\ app.pc[r] = "dummy"
    /\ Serving([app EXCEPT !.whale_messages_cache = DummyData,
                           !.pc[r] = "flag"])

\* initialize_once: app_initialized = True
SetInitialized(r) ==
    /\ pc = "serving"
    /\ app.pc[r] = "flag"
    /\ Serving([app EXCEPT !.app_initialized = TRUE,
                           !.pc[r] = "handled"])

\* the scheduler fires run_async_fetch
StartJob ==
    /\ pc = "serving"
    /\ app.pc[Scheduler] = "idle"
    /\ app.jobs < MaxJobs
    /\ Serving([app EXCEPT !.jobs = @ + 1,
                           !.pc[Scheduler] = "fetch_check"])

\* fetch_whale_messages: if not telegram_client: return []
CheckClient(t) ==
    /\ pc = "serving"
    /\ app.pc[t] = "fetch_check"
    /\ IF app.telegram_client = "none"
       THEN Serving([app EXCEPT !.outcome[t] = "no_client",
                                !.returned[t] = <<>>,
                                !.pc[t] = AfterFetch(t)])
       ELSE Serving([app EXCEPT !.pc[t] = "fetching"])

\* a failure path that drops the cache instead of keeping it
FetchFailsClearsCache(t) ==
    /\ pc = "serving"
    /\ app.pc[t] = "fetching"
    /\ Serving([app EXCEPT !.outcome[t] = "failed",
                           !.whale_messages_cache = <<>>,
                           !.returned[t] = <<>>,
                           !.pc[t] = AfterFetch(t)])

\* fetch_whale_messages: an exception in the try block (always the case on
\* a client that was never started): return whale_messages_cache
FetchFails(t) ==
    /\ pc = "serving"
    /\ app.pc[t] = "fetching"
    /\ Serving([app EXCEPT !.outcome[t] = "failed",
                           !.returned[t] = app.whale_messages_cache,
                           !.pc[t] = AfterFetch(t)])

\* fetch_whale_messages: whale_messages_cache = messages
StoreMessages(t) ==
    /\ pc = "serving"
    /\ app.pc[t] = "fetching"
    /\ app.telegram_client = "started"
    /\ \E messages \in ChannelMessages(app.now + 1) :
           Serving([app EXCEPT !.whale_messages_cache = messages,
                               !.returned[t] = messages,
                               !.pc[t] = "stamp"])

\* fetch_whale_messages: last_update_time = datetime.now(); return messages
StampUpdate(t) ==
    /\ pc = "serving"
    /\ app.pc[t] = "stamp"
    /\ Serving([app EXCEPT !.last_update_time = Some(app.now + 1),
                           !.now = @ + 1,
                           !.outcome[t] = "fetched",
                           !.pc[t] = AfterFetch(t)])

NextApp ==
    \/ \E r \in Requests : CheckInitialized(r)
    \/ \E r \in Requests : CheckCredentials(r)
    \/ \E r \in Requests : CreateClient(r)
    \/ \E r \in Requests : StartClient(r)
    \/ \E r \in Requests : AssignDummy(r)
    \/ \E r \in Requests : SetInitialized(r)
    \/ StartJob
    \/ \E t \in Threads : CheckClient(t)
    \/ \E t \in Threads : FetchFails(t)
    \/ \E t \in Threads : StoreMessages(t)
    \/ \E t \in Threads : StampUpdate(t)

SpecApp == InitApp /\ [][NextApp]_vars

----------------------------------------------------------------------------
(* First-request initialization                                            *)

\* C23: the body of initialize_once is executed by exactly one request in
\* any interleaving of concurrent requests, and once app_initialized is
\* true no step overwrites whale_messages_cache with the dummy data.
C23_InitializesOnce ==
    /\ [](pc = "serving" => Cardinality(app.entered) <= 1)
    /\ [][(pc = "serving" /\ app.app_initialized
              /\ app'.whale_messages_cache = DummyData)
             => app.whale_messages_cache = DummyData]_vars

----------------------------------------------------------------------------
(* Refreshing the whale feed                                               *)

\* the globals fetch_whale_messages may write
SharedUnchanged ==
    /\ app'.whale_messages_cache = app.whale_messages_cache
    /\ app'.last_update_time = app.last_update_time

\* C24: a call of fetch_whale_messages that finds no Telegram client
\* returns an empty list and one that fails with an error returns the
\* existing whale_messages_cache, and neither writes the cache or
\* last_update_time; no client exists before a request begins the
\* initialization or when the credentials are missing, so every scheduled
\* refresh run then is of the first kind; last_update_time is written
\* only by a call that has just stored its messages in the cache.
C24_FailedRefreshKeepsState ==
    [][pc = "serving" =>
          /\ (app.entered = {} \/ ~ app.has_credentials)
                => app.telegram_client = "none"
          /\ \A t \in Threads :
                /\ (app.pc[t] = "fetch_check" /\ app'.pc[t] # "fetch_check")
                      => /\ SharedUnchanged
                         /\ app.telegram_client = "none"
                               => /\ app'.pc[t] = AfterFetch(t)
                                  /\ app'.returned[t] = <<>>
                /\ (app.pc[t] = "fetching" /\ app'.pc[t] = AfterFetch(t))
                      => /\ SharedUnchanged
                         /\ app'.returned[t] = app.whale_messages_cache
                /\ (app.pc[t] = "fetching" /\ app'.pc[t] = "stamp")
                      => /\ app'.whale_messages_cache = app'.returned[t]
                         /\ app'.last_update_time = app.last_update_time
          /\ app'.last_update_time # app.last_update_time
                => \E t \in Threads :
                      /\ app.pc[t] = "stamp"
                      /\ app'.pc[t] = AfterFetch(t)
                      /\ app'.outcome[t] = "fetched"
                      /\ app'.whale_messages_cache = app.whale_messages_cache]_vars

\* a request's fetch failed after an earlier fetch had stored and stamped,
\* and returned the non-empty cache, which is still in place, and the
\* scheduled refresh before it had found no client
C24_Witness ==
    /\ pc = "serving"
    /\ app.outcome[Scheduler] = "no_client"
    /\ app.last_update_time # None
    /\ \E r \in Requests :
          /\ app.outcome[r] = "failed"
          /\ app.pc[r] = "flag"
          /\ app.returned[r] # <<>>
          /\ app.returned[r] = app.whale_messages_cache

====
